---- MODULE Spec2Model ----
(***************************************************************************)
(* Chunk reorganisation planning (query/src/frontend/reorg.rs) and the     *)
(* ingester's QueryableBatch (ingester/src/query.rs, querier_handler.rs).  *)
(*                                                                         *)
(* A plan is a record tree built by the planner exactly as the code builds *)
(* it; the execution engine, the chunk provider, the stream splitter and   *)
(* the delete-predicate parser are collaborators whose code is outside     *)
(* the sources at hand: they are modelled from the specification and from  *)
(* the expected outputs of the tests.                                      *)
(*                                                                         *)
(* Further sections model the columns system table                         *)
(* (server/src/db/system_tables.rs), the gRPC error payloads               *)
(* (generated_types/src/google.rs), the delete API conversions             *)
(* (generated_types/src/parse_delete.rs) and the shutdown of the router    *)
(* server type (ioxd_router/src/lib.rs), each with its own specification.  *)
(***************************************************************************)
EXTENDS Integers, Sequences, FiniteSets, TLC

VARIABLES pc, call, ret, batch, router

vars == <<pc, call, ret, batch, router>>

-----------------------------------------------------------------------------
(* Bounds of the model *)

\* Largest number of rows handed to one planning call / held by one batch.
MaxRows == 2

\* Timestamps of rows range over 1..MaxTime.
MaxTime == 2

\* Largest number of rows plus tombstones of one QueryableBatch.
MaxBatchSize == 3

\* Largest number of snapshots of a QueryableBatch whose snapshots differ in
\* their columns.
MaxSnapshots == 2

\* Largest number of rows of such a snapshot.
MaxSnapshotRows == 2

-----------------------------------------------------------------------------
(* Values, rows, schemas *)

\* The null value of a column.  Every other value is a positive integer.
NULL == 0

\* Tag values, coded by their lexicographic rank: 1 is "AL", 2 is "MT".
Tags == {1, 2}

Times == 1..MaxTime

TIME_COLUMN_NAME == "time"

\* All columns of the table, in lexicographic order of their names.
ColumnOrder == <<"field_int", "tag1", "time">>

AllColumns == {ColumnOrder[i] : i \in 1..Len(ColumnOrder)}

\* The primary key: the tag columns, then time.
TagColumns == <<"tag1">>

ColType == [field_int |-> "I64", tag1 |-> "String", tag2 |-> "String", time |-> "I64"]

\* The row with the given values; field_int doubles as the row's identity.
Row(tag, time, field) == [tag1 |-> tag, time |-> time, field_int |-> field]

Range(s) == {s[i] : i \in 1..Len(s)}

RECURSIVE Concat(_)
Concat(ss) == IF ss = <<>> THEN <<>> ELSE Head(ss) \o Concat(Tail(ss))

\* Every column name of the model, in lexicographic order.
NameOrder == <<"field_int", "tag1", "tag2", "time">>

\* The columns of `cols` in lexicographic order.
SortedCols(cols) == SelectSeq(NameOrder, LAMBDA c : c \in cols)

NoSortKey == <<>>

\* Sort keys: sequences of (column, descending, nulls_first).
KeyTime == <<[col |-> "time", descending |-> FALSE, nulls_first |-> FALSE]>>

KeyTagDescTime ==
  <<[col |-> "tag1", descending |-> TRUE, nulls_first |-> TRUE],
    [col |-> "time", descending |-> FALSE, nulls_first |-> FALSE]>>

SortKeys == {KeyTime, KeyTagDescTime}

\* A schema: its columns (sorted by name) and its declared sort key.
Schema(cols, key) == [columns |-> SortedCols(cols), sort_key |-> key]

TableSchemas == {Schema(AllColumns, k) : k \in {NoSortKey, KeyTime}}

\* The schema of a table of which some chunk has a column more.
WideSchema == Schema(AllColumns \cup {"tag2"}, NoSortKey)

-----------------------------------------------------------------------------
(* Delete predicates (data_types::delete_predicate::DeletePredicate) *)

Scalar(type, value) == [type |-> type, value |-> value]

DeleteExpr(column, op, scalar) == [column |-> column, op |-> op, scalar |-> scalar]

DeletePredicate(start, end, exprs) ==
  [range |-> [start |-> start, end |-> end], exprs |-> exprs]

\* The value of column c in a row; a column the row lacks reads as null.
ValueOf(row, c) == IF c \in DOMAIN row THEN row[c] ELSE NULL

\* One clause `column op literal` of a delete predicate, on a row.
ExprHolds(e, row) ==
  LET v == ValueOf(row, e.column) IN
    /\ v # NULL
    /\ e.column \in DOMAIN ColType
    /\ ColType[e.column] = e.scalar.type
    /\ IF e.op = "Eq" THEN v = e.scalar.value ELSE v # e.scalar.value

\* A row is deleted by a predicate iff its time is in the inclusive range
\* and every clause holds.
DeleteMatches(dp, row) ==
  /\ dp.range.start <= row[TIME_COLUMN_NAME]
  /\ row[TIME_COLUMN_NAME] <= dp.range.end
  /\ \A i \in 1..Len(dp.exprs) : ExprHolds(dp.exprs[i], row)

\* Several predicates of one chunk: a row deleted by any of them is excluded.
Deleted(preds, row) == \E i \in 1..Len(preds) : DeleteMatches(preds[i], row)

-----------------------------------------------------------------------------
(* The chunks handed to the planner (query::test::TestChunk) *)

DelA == DeletePredicate(1, 1, <<DeleteExpr("tag1", "Eq", Scalar("String", 1))>>)

DelB ==
  DeletePredicate(1, MaxTime,
                  <<DeleteExpr("tag1", "Ne", Scalar("String", 1)),
                    DeleteExpr("field_int", "Eq", Scalar("I64", 2))>>)

ChunkDeleteLists == {<<>>, <<DelA>>, <<DelA, DelB>>}

\* A test chunk is flagged as possibly holding duplicates exactly when two
\* of its rows share a primary key (with_may_contain_pk_duplicates).
with_may_contain_pk_duplicates(rows) ==
  \E i, j \in 1..Len(rows) :
    /\ i < j
    /\ \A c \in Range(TagColumns) \cup {TIME_COLUMN_NAME} : rows[i][c] = rows[j][c]

TestChunk(id, table, rows, preds) ==
  [id |-> id, table_name |-> table, rows |-> rows, delete_predicates |-> preds,
   may_contain_pk_duplicates |-> with_may_contain_pk_duplicates(rows)]

\* All sequences of n rows; the i-th row carries field_int = first + i - 1.
RowSeqs(n, first) ==
  {[i \in 1..n |-> Row(f[i][1], f[i][2], first + i - 1)] :
     f \in [1..n -> Tags \X Times]}

RECURSIVE SetToSeq(_)
SetToSeq(S) ==
  IF S = {} THEN <<>>
  ELSE LET m == CHOOSE x \in S : \A y \in S : x <= y
       IN <<m>> \o SetToSeq(S \ {m})

\* The row sequence cut into consecutive non-empty segments after the
\* positions in `cuts`.
Segments(rows, cuts) ==
  LET n      == Len(rows)
      starts == SetToSeq({1} \cup {c + 1 : c \in cuts})
      end(s) == CHOOSE c \in cuts \cup {n} :
                  c >= s /\ \A d \in cuts \cup {n} : d >= s => c <= d
  IN [j \in 1..Len(starts) |-> SubSeq(rows, starts[j], end(starts[j]))]

\* Lists of chunks of table "t" holding 1..MaxRows rows in all.
GoodChunkLists ==
  UNION {
    UNION {
      UNION {
        LET segs == Segments(rows, cuts) IN
          {[j \in 1..Len(segs) |-> TestChunk(j, "t", segs[j], dels[j])] :
             dels \in [1..Len(segs) -> ChunkDeleteLists]}
        : cuts \in SUBSET (1..(n - 1))}
      : rows \in RowSeqs(n, 1)}
    : n \in 1..MaxRows}

\* Lists the planner must reject: a chunk of another table at some position.
MismatchedChunkLists ==
  {<<TestChunk(1, "t", <<Row(1, 1, 1)>>, <<>>), TestChunk(2, "u", <<Row(2, 1, 2)>>, <<>>)>>,
   <<TestChunk(1, "u", <<>>, <<>>), TestChunk(2, "u", <<Row(1, 1, 1)>>, <<>>),
     TestChunk(3, "t", <<>>, <<>>)>>}

ChunkLists ==
  GoodChunkLists \cup MismatchedChunkLists
    \cup {<<>>, <<TestChunk(1, "t", <<>>, <<>>)>>}

-----------------------------------------------------------------------------
(* The chunk provider and the execution engine (query::provider, query::exec) *)

None == [some |-> FALSE]

Some(v) == [some |-> TRUE, value |-> v]

\* The primary key of a row: its tag columns, then its time.
PkKey(row) ==
  [i \in 1..(Len(TagColumns) + 1) |->
     IF i <= Len(TagColumns) THEN ValueOf(row, TagColumns[i])
     ELSE row[TIME_COLUMN_NAME]]

\* Lexicographic order of two keys of the same length.
RECURSIVE LexLess(_, _)
LexLess(a, b) ==
  /\ a # <<>>
  /\ \/ Head(a) < Head(b)
     \/ Head(a) = Head(b) /\ LexLess(Tail(a), Tail(b))

PkLess(r1, r2) == LexLess(PkKey(r1), PkKey(r2))

RECURSIVE InsertSorted(_, _)
InsertSorted(r, s) ==
  IF s = <<>> THEN <<r>>
  ELSE IF PkLess(r, Head(s)) THEN <<r>> \o s
  ELSE <<Head(s)>> \o InsertSorted(r, Tail(s))

\* Stable sort on the primary key: tags ascending, then time ascending.
RECURSIVE SortOnPk(_)
SortOnPk(s) ==
  IF s = <<>> THEN <<>>
  ELSE InsertSorted(s[Len(s)], SortOnPk(SubSeq(s, 1, Len(s) - 1)))

\* Of each run of neighbouring rows with one primary key, the last is kept.
RECURSIVE Deduplicate(_)
Deduplicate(s) ==
  IF Len(s) <= 1 THEN s
  ELSE IF PkKey(s[1]) = PkKey(s[2]) THEN Deduplicate(Tail(s))
  ELSE <<s[1]>> \o Deduplicate(Tail(s))

\* A row widened (or narrowed) to the given columns, null where it has none.
Pad(row, cols) == [c \in cols |-> ValueOf(row, c)]

\* Every row widened (or narrowed) to the given columns.
PadAll(rows, cols) == [i \in 1..Len(rows) |-> Pad(rows[i], cols)]

\* A filter expression `column op value` on a row.
EvalExpr(e, row) ==
  LET v == ValueOf(row, e.column) IN
    /\ v # NULL
    /\ CASE e.op = "LtEq" -> v <= e.value
         [] e.op = "Lt"   -> v < e.value
         [] e.op = "Eq"   -> v = e.value
         [] e.op = "NotEq" -> v # e.value

-----------------------------------------------------------------------------
(* Tombstones and their parsing (iox_catalog::interface::Tombstone,        *)
(* predicate::delete_predicate::parse_delete_predicate)                    *)

Digits == <<"0", "1", "2", "3", "4", "5", "6", "7", "8", "9">>

RECURSIVE NatToString(_)
NatToString(n) ==
  IF n < 10 THEN <<Digits[n + 1]>>
  ELSE Append(NatToString(n \div 10), Digits[(n % 10) + 1])

\* i64::to_string: the decimal digits, with a leading minus sign if negative.
to_string(n) == IF n < 0 THEN <<"-">> \o NatToString(0 - n) ELSE NatToString(n)

DigitValue(c) == CHOOSE d \in 0..9 : Digits[d + 1] = c

RECURSIVE DigitsToNat(_)
DigitsToNat(s) ==
  IF s = <<>> THEN 0
  ELSE 10 * DigitsToNat(SubSeq(s, 1, Len(s) - 1)) + DigitValue(s[Len(s)])

\* A decimal integer timestamp read back from its text.
parse_timestamp(s) ==
  LET neg  == s # <<>> /\ Head(s) = "-"
      body == IF neg THEN Tail(s) ELSE s
  IN IF body = <<>> \/ \E i \in 1..Len(body) : body[i] \notin Range(Digits)
     THEN [ok |-> FALSE]
     ELSE [ok |-> TRUE,
           value |-> IF neg THEN 0 - DigitsToNat(body) ELSE DigitsToNat(body)]

\* The literals of predicate texts and the scalars they denote.
StringLiterals == [AL |-> 1, MT |-> 2]

NumberLiterals == ("1" :> 1) @@ ("2" :> 2) @@ ("3" :> 3)

OpOf(tok) == IF tok = "=" THEN "Eq" ELSE "Ne"

ReservedTokens == {"=", "!=", "and", ">", "<", "or"}

\* Predicate text `col op literal [and col op literal]...`, as its tokens.
RECURSIVE parse_predicate(_)
parse_predicate(toks) ==
  IF Len(toks) < 3 THEN [ok |-> FALSE]
  ELSE IF \/ toks[1] \in ReservedTokens
          \/ toks[2] \notin {"=", "!="}
          \/ toks[3] \notin (DOMAIN StringLiterals \cup DOMAIN NumberLiterals)
       THEN [ok |-> FALSE]
  ELSE LET scalar == IF toks[3] \in DOMAIN NumberLiterals
                     THEN Scalar("I64", NumberLiterals[toks[3]])
                     ELSE Scalar("String", StringLiterals[toks[3]])
           expr   == DeleteExpr(toks[1], OpOf(toks[2]), scalar)
       IN IF Len(toks) = 3 THEN [ok |-> TRUE, exprs |-> <<expr>>]
          ELSE IF toks[4] # "and" THEN [ok |-> FALSE]
          ELSE LET rest == parse_predicate(SubSeq(toks, 5, Len(toks)))
               IN IF rest.ok THEN [ok |-> TRUE, exprs |-> <<expr>> \o rest.exprs]
                  ELSE [ok |-> FALSE]

parse_delete_predicate(start_time, stop_time, predicate) ==
  LET start == parse_timestamp(start_time)
      stop  == parse_timestamp(stop_time)
      exprs == parse_predicate(predicate)
  IN IF start.ok /\ stop.ok /\ exprs.ok
     THEN [ok |-> TRUE,
           value |-> DeletePredicate(start.value, stop.value, exprs.exprs)]
     ELSE [ok |-> FALSE]

Tombstone(min_time, max_time, serialized_predicate) ==
  [min_time |-> min_time, max_time |-> max_time,
   serialized_predicate |-> serialized_predicate]

TextTagEq == <<"tag1", "=", "AL">>

TextFieldNeAndTag == <<"field_int", "!=", "1", "and", "tag1", "=", "MT">>

TextTruncated == <<"tag1", "=">>

TextBadOp == <<"tag1", "=", "AL", "and", "field_int", ">", "1">>

TombstoneRanges == {<<1, 1>>, <<2, MaxTime>>, <<0 - 12, 1>>}

GoodTombstones ==
  {Tombstone(r[1], r[2], t) :
     r \in TombstoneRanges, t \in {TextTagEq, TextFieldNeAndTag}}

BadTombstones ==
  {Tombstone(1, 1, TextTruncated), Tombstone(1, MaxTime, TextBadOp)}

Tombstones == GoodTombstones \cup BadTombstones

-----------------------------------------------------------------------------
(* QueryableBatch (ingester/src/query.rs) *)

Ok(fields) == [status |-> "ok"] @@ fields

Panic(message) == [status |-> "panic", message |-> message]

Err(error) == [status |-> "err", error |-> error]

Field(name, type, nullable) == [name |-> name, type |-> type, nullable |-> nullable]

\* RecordBatch::try_from_iter_with_nullable: the columns in the order given,
\* each with its type and its nullability, and the rows.
try_from_iter_with_nullable(fields, rows) ==
  LET at(c) == CHOOSE i \in 1..Len(fields) : fields[i].name = c
      names == {fields[i].name : i \in 1..Len(fields)}
  IN [columns  |-> [i \in 1..Len(fields) |-> fields[i].name],
      rows     |-> rows,
      types    |-> [c \in names |-> fields[at(c)].type],
      nullable |-> [c \in names |-> fields[at(c)].nullable]]

\* A record batch of the table: every column nullable but time.
RecordBatch(columns, rows) ==
  try_from_iter_with_nullable(
    [i \in 1..Len(columns) |->
       Field(columns[i], ColType[columns[i]], columns[i] # TIME_COLUMN_NAME)],
    rows)

\* The fields of a record batch, in the batch's order.
BatchFields(b) ==
  [i \in 1..Len(b.columns) |->
     Field(b.columns[i], b.types[b.columns[i]], b.nullable[b.columns[i]])]

IsPanic(r) == "status" \in DOMAIN r /\ r.status = "panic"

SnapshotBatch(min_seq, max_seq, data) ==
  [min_sequencer_number |-> min_seq, max_sequencer_number |-> max_seq,
   data |-> data]

SelectionAll == [all |-> TRUE]

SelectionSome(columns) == [all |-> FALSE, columns |-> columns]

\* Mutant of tombstone_to_delete_predicate: the two time bounds change places.
tombstone_to_delete_predicate_swapped(delete) ==
  parse_delete_predicate(to_string(delete.max_time),
                         to_string(delete.min_time),
                         delete.serialized_predicate)

\* The delete predicate of one tombstone, or the failure of its parsing.
tombstone_to_delete_predicate(delete) ==
  parse_delete_predicate(to_string(delete.min_time),
                         to_string(delete.max_time),
                         delete.serialized_predicate)

\* Mutant of new_delete_predicates: each predicate is put in front.
RECURSIVE new_delete_predicates_push_front(_, _)
new_delete_predicates_push_front(deletes, delete_predicates) ==
  IF deletes = <<>> THEN [ok |-> TRUE, value |-> delete_predicates]
  ELSE LET parsed == tombstone_to_delete_predicate(Head(deletes)) IN
         IF ~parsed.ok THEN [ok |-> FALSE]
         ELSE new_delete_predicates_push_front(Tail(deletes),
                                               <<parsed.value>> \o delete_predicates)

\* Mutant of new_delete_predicates: a tombstone that does not parse is skipped.
RECURSIVE new_delete_predicates_skip(_, _)
new_delete_predicates_skip(deletes, delete_predicates) ==
  IF deletes = <<>> THEN [ok |-> TRUE, value |-> delete_predicates]
  ELSE LET parsed == tombstone_to_delete_predicate(Head(deletes)) IN
         new_delete_predicates_skip(Tail(deletes),
           IF parsed.ok THEN Append(delete_predicates, parsed.value)
           ELSE delete_predicates)

\* The loop of QueryableBatch::new over the tombstones: `expect` ends the
\* construction at the first tombstone that does not parse.
RECURSIVE new_delete_predicates(_, _)
new_delete_predicates(deletes, delete_predicates) ==
  IF deletes = <<>> THEN [ok |-> TRUE, value |-> delete_predicates]
  ELSE LET parsed == tombstone_to_delete_predicate(Head(deletes)) IN
         IF ~parsed.ok THEN [ok |-> FALSE]
         ELSE new_delete_predicates(Tail(deletes),
                                    Append(delete_predicates, parsed.value))

QueryableBatch_new(table_name, data, deletes) ==
  LET built == new_delete_predicates(deletes, <<>>) IN
    IF ~built.ok THEN Panic("Error building delete predicate")
    ELSE Ok([value |-> [data |-> data,
                        deletes |-> deletes,
                        delete_predicates |-> built.value,
                        table_name |-> table_name]])

\* Mutant of delete_predicates: the batch reports no delete predicate.
delete_predicates_none(self) == <<>>

delete_predicates(self) == self.delete_predicates

\* schema::merge::SchemaMerger: the fields seen so far, in insertion order.
SchemaMerger_new == [order |-> <<>>, types |-> <<>>, nullable |-> <<>>]

\* A column seen for the first time enters with its declared type and its
\* declared nullability; inputs that lack the column leave it as it is.
insert_field(merger, f) ==
  [order    |-> Append(merger.order, f.name),
   types    |-> merger.types @@ (f.name :> f.type),
   nullable |-> merger.nullable @@ (f.name :> f.nullable)]

\* Mutant of merge_nullable: the later declaration wins.
merge_nullable_last_wins(existing, new) == new

\* A column declared by several inputs is nullable if any of them says so.
merge_nullable(existing, new) == existing \/ new

\* One field into the merger: a column already there must have the same type.
\* A merger that has failed stays failed.
merge_field(merger, f) ==
  IF ~merger.ok THEN merger
  ELSE IF f.name \notin Range(merger.value.order)
  THEN [ok |-> TRUE, value |-> insert_field(merger.value, f)]
  ELSE IF merger.value.types[f.name] # f.type
  THEN [ok |-> FALSE,
        error |-> [kind |-> "SchemaConflict", column |-> f.name,
                   existing |-> merger.value.types[f.name], new |-> f.type]]
  ELSE [ok |-> TRUE,
        value |-> [merger.value EXCEPT
                     !.nullable[f.name] = merge_nullable(@, f.nullable)]]

\* SchemaMerger::merge: the fields of one schema, one after the other.
RECURSIVE SchemaMerger_merge(_, _)
SchemaMerger_merge(merger, fields) ==
  IF fields = <<>> THEN merger
  ELSE SchemaMerger_merge(merge_field(merger, Head(fields)), Tail(fields))

\* Mutant of SchemaMerger_build: the columns stay in insertion order.
SchemaMerger_build_insertion_order(merger) ==
  [columns |-> merger.order, sort_key |-> NoSortKey,
   types |-> merger.types, nullable |-> merger.nullable]

\* SchemaMerger::build: the merged schema, its columns sorted by name.
SchemaMerger_build(merger) ==
  [columns |-> SortedCols(Range(merger.order)), sort_key |-> NoSortKey,
   types |-> merger.types, nullable |-> merger.nullable]

\* Every schema into one merger; the first conflict ends the merge.
RECURSIVE merge_all(_, _)
merge_all(merger, schemas) ==
  IF schemas = <<>> THEN merger
  ELSE merge_all(SchemaMerger_merge(merger, Head(schemas)), Tail(schemas))

build_merged(merger) ==
  IF merger.ok THEN [ok |-> TRUE, value |-> SchemaMerger_build(merger.value)]
  ELSE merger

\* merge(schemas): the merged schema, or the SchemaConflict error.
merge_schemas(schemas) ==
  build_merged(merge_all([ok |-> TRUE, value |-> SchemaMerger_new], schemas))

\* Result::expect
expect(result, message) == IF result.ok THEN result.value ELSE Panic(message)

\* schema::merge::merge_record_batch_schemas: it returns a schema, never an
\* error value, so batches whose schemas conflict end it with a panic.
merge_record_batch_schemas(batches) ==
  expect(merge_schemas([i \in 1..Len(batches) |-> BatchFields(batches[i])]),
         "Schemas compatible")

schema(self) ==
  merge_record_batch_schemas([i \in 1..Len(self.data) |-> self.data[i].data])

\* The values of a sequence of Some options.
Unwrapped(options) == [i \in 1..Len(options) |-> options[i].value]

\* Mutant of scan: the selection is not looked at.
scan_all_columns(snapshot, selection) == Some(snapshot.data)

\* Mutant of scan: a batch with none of the selected columns still yields
\* its rows, without columns.
scan_keeps_rows(snapshot, selection) ==
  LET have == snapshot.data.columns
      cols == IF selection.all THEN have
              ELSE SelectSeq(have, LAMBDA c : c \in Range(selection.columns))
  IN Some([columns  |-> cols,
           rows     |-> [i \in 1..Len(snapshot.data.rows) |->
                           [c \in Range(cols) |-> snapshot.data.rows[i][c]]],
           types    |-> [c \in Range(cols) |-> snapshot.data.types[c]],
           nullable |-> [c \in Range(cols) |-> snapshot.data.nullable[c]]])

\* SnapshotBatch::scan: the selected columns the batch has, None if it has none.
scan(snapshot, selection) ==
  LET have == snapshot.data.columns
      cols == IF selection.all THEN have
              ELSE SelectSeq(have, LAMBDA c : c \in Range(selection.columns))
  IN IF cols = <<>> THEN None
     ELSE Some([columns  |-> cols,
                rows     |-> [i \in 1..Len(snapshot.data.rows) |->
                                [c \in Range(cols) |-> snapshot.data.rows[i][c]]],
                types    |-> [c \in Range(cols) |-> snapshot.data.types[c]],
                nullable |-> [c \in Range(cols) |-> snapshot.data.nullable[c]]])

\* Mutant of merge_record_batches: a column a row lacks is filled with the
\* value 1 instead of null.
merge_record_batches_no_padding(merged, batches) ==
  IF batches = <<>> THEN None
  ELSE Some([columns  |-> merged.columns,
             rows     |-> Concat([i \in 1..Len(batches) |->
                            [j \in 1..Len(batches[i].rows) |->
                               [c \in Range(merged.columns) |->
                                  IF c \in DOMAIN batches[i].rows[j]
                                  THEN batches[i].rows[j][c]
                                  ELSE 1]]]),
             types    |-> merged.types,
             nullable |-> merged.nullable])

\* arrow_util::util::merge_record_batches: one batch of all rows, each padded
\* with nulls to the merged schema; None if there is no batch.
merge_record_batches(merged, batches) ==
  IF batches = <<>> THEN None
  ELSE Some([columns  |-> merged.columns,
             rows     |-> Concat([i \in 1..Len(batches) |->
                            [j \in 1..Len(batches[i].rows) |->
                               Pad(batches[i].rows[j], Range(merged.columns))]]),
             types    |-> merged.types,
             nullable |-> merged.nullable])

\* The batches the snapshots yield for the selection: those that are Some.
scan_snapshots(data, selection) ==
  Unwrapped(SelectSeq([i \in 1..Len(data) |-> scan(data[i], selection)],
                      LAMBDA b : b.some))

\* The stream of the one merged batch, if there is one.
SizedRecordBatchStream_new(schema0, batch0) ==
  IF IsPanic(schema0) THEN schema0
  ELSE Ok([schema |-> schema0,
           batches |-> IF batch0.some THEN <<batch0.value>> ELSE <<>>])

merge_into_stream(schema0, batches) ==
  SizedRecordBatchStream_new(schema0, merge_record_batches(schema0, batches))

combine_batches(batches) ==
  merge_into_stream(merge_record_batch_schemas(batches), batches)

\* Mutant of read_filter: the predicate is applied to the rows.
read_filter_with_predicate(self, predicate, selection) ==
  LET batches == scan_snapshots(self.data, selection) IN
    combine_batches(
      [i \in 1..Len(batches) |->
         [batches[i] EXCEPT !.rows =
            SelectSeq(@, LAMBDA r : predicate.some => EvalExpr(predicate.value, r))]])

\* Mutant of read_filter: the rows the batch's delete predicates match are
\* left out.
read_filter_with_deletes(self, predicate, selection) ==
  combine_batches(
    scan_snapshots(
      [i \in 1..Len(self.data) |->
         [self.data[i] EXCEPT !.data.rows =
            SelectSeq(@, LAMBDA r : ~Deleted(self.delete_predicates, r))]],
      selection))

\* Mutant of read_filter: a selection that leaves no batch is an error.
read_filter_empty_is_error(self, predicate, selection) ==
  LET batches == scan_snapshots(self.data, selection) IN
    IF batches = <<>> THEN Err("ConcatBatches") ELSE combine_batches(batches)

read_filter(self, predicate, selection) ==
  combine_batches(scan_snapshots(self.data, selection))

\* The rows of a record batch stream.
StreamRows(stream) ==
  Concat([i \in 1..Len(stream.batches) |-> stream.batches[i].rows])

\* Both bounds are read from the first snapshot.
min_max_sequence_numbers(self) ==
  IF self.data = <<>> THEN Panic("The Queryable Batch should not empty")
  ELSE LET min == Head(self.data).min_sequencer_number
           max == Head(self.data).max_sequencer_number
       IN IF ~(min <= max) THEN Panic("assertion failed: min <= max")
          ELSE Ok([value |-> <<min, max>>])

apply_predicate_to_metadata(self, predicate) == Ok([value |-> "Unknown"])

-----------------------------------------------------------------------------
(* Execution of a plan (query::provider::ChunkTableProvider, query::exec) *)

EmptyPredicate == None

\* Chunks are polymorphic: a TestChunk holds its rows, a QueryableBatch
\* produces them with read_filter.
IsQueryableBatch(chunk) == "data" \in DOMAIN chunk

ChunkRows(chunk) ==
  IF IsQueryableBatch(chunk)
  THEN StreamRows(read_filter(chunk, EmptyPredicate, SelectionAll))
  ELSE chunk.rows

ChunkDeletePredicates(chunk) ==
  IF IsQueryableBatch(chunk) THEN delete_predicates(chunk)
  ELSE chunk.delete_predicates

\* The scan of one chunk: its rows that no delete predicate of the chunk
\* matches, widened to the provider's schema.
ChunkScan(chunk, columns) ==
  PadAll(SelectSeq(ChunkRows(chunk),
                   LAMBDA r : ~Deleted(ChunkDeletePredicates(chunk), r)),
         columns)

\* A QueryableBatch may always hold duplicates of a primary key; a test
\* chunk says so with its flag.
may_contain_pk_duplicates(chunk) ==
  IF IsQueryableBatch(chunk) THEN TRUE ELSE chunk.may_contain_pk_duplicates

\* The provider sorts on the primary key and deduplicates when the sort is
\* requested or a chunk may hold duplicates.
NeedsDeduplication(provider) ==
  \/ provider.ensure_pk_sort
  \/ \E j \in 1..Len(provider.chunks) : may_contain_pk_duplicates(provider.chunks[j])

\* The scan of a provider: the chunks one after the other, sorted on the
\* primary key and deduplicated where needed.
ProviderScan(provider) ==
  LET all == Concat([j \in 1..Len(provider.chunks) |->
                       ChunkScan(provider.chunks[j], Range(provider.schema.columns))])
  IN IF NeedsDeduplication(provider) THEN Deduplicate(SortOnPk(all)) ELSE all

\* A TableScan node: the provider's rows that pass the filters, projected.
ExecuteScan(plan) ==
  LET rows == ProviderScan(plan.provider)
      kept == SelectSeq(rows,
                LAMBDA r : \A i \in 1..Len(plan.filters) : EvalExpr(plan.filters[i], r))
      cols == IF plan.projection.some
              THEN {plan.provider.schema.columns[k] : k \in Range(plan.projection.value)}
              ELSE Range(plan.provider.schema.columns)
  IN PadAll(kept, cols)

\* A StreamSplit node routes each row of its input, in order, to partition 0
\* if the expression holds and to partition 1 otherwise.
StreamSplit(input, expr) ==
  <<SelectSeq(input, LAMBDA r : EvalExpr(expr, r)),
    SelectSeq(input, LAMBDA r : ~EvalExpr(expr, r))>>

\* The partitions a plan yields.
Execute(plan) ==
  IF plan.node = "StreamSplit"
  THEN StreamSplit(ExecuteScan(plan.input), plan.split_expr)
  ELSE <<ExecuteScan(plan)>>

-----------------------------------------------------------------------------
(* ReorgPlanner (query/src/frontend/reorg.rs) *)

TableScan(table_name, provider, projection, filters) ==
  [node |-> "TableScan", table_name |-> table_name, provider |-> provider,
   projection |-> projection, filters |-> filters]

make_stream_split(plan, split_expr) ==
  [node |-> "StreamSplit", input |-> plan, split_expr |-> split_expr]

ProviderBuilder_new(table_name, schema0) ==
  [table_name |-> table_name, schema |-> schema0, chunks |-> <<>>,
   ensure_pk_sort |-> FALSE, chunk_pruner |-> "none"]

\* Mutant of scan_single_chunk_plan_with_filter: the builder is told
\* ensure_pk_sort.
scan_single_chunk_plan_with_filter_sorted(schema0, chunk, projection, filters) ==
  LET table_name == chunk.table_name
      builder0   == ProviderBuilder_new(table_name, schema0)
      builder1   == [builder0 EXCEPT !.chunk_pruner = "no_op", !.ensure_pk_sort = TRUE]
      provider   == [builder1 EXCEPT !.chunks = Append(@, chunk)]
  IN Ok([plan |-> TableScan(table_name, provider, projection, filters)])

scan_single_chunk_plan_with_filter(schema0, chunk, projection, filters) ==
  LET table_name == chunk.table_name
      builder0   == ProviderBuilder_new(table_name, schema0)
      builder1   == [builder0 EXCEPT !.chunk_pruner = "no_op"]
      provider   == [builder1 EXCEPT !.chunks = Append(@, chunk)]
  IN Ok([plan |-> TableScan(table_name, provider, projection, filters)])

scan_single_chunk_plan(schema0, chunk) ==
  scan_single_chunk_plan_with_filter(schema0, chunk, None, <<>>)

\* Mutant of add_chunks: only the chunk after the first is compared with
\* the table name.
add_chunks_second_only(builder, chunks) ==
  IF Len(chunks) >= 2 /\ chunks[2].table_name # builder.table_name THEN [ok |-> FALSE]
  ELSE [ok |-> TRUE, value |-> [builder EXCEPT !.chunks = @ \o chunks]]

\* The loop of sorted_scan_plan: every chunk must be of the first chunk's table.
RECURSIVE add_chunks(_, _)
add_chunks(builder, chunks) ==
  IF chunks = <<>> THEN [ok |-> TRUE, value |-> builder]
  ELSE IF Head(chunks).table_name # builder.table_name THEN [ok |-> FALSE]
  ELSE add_chunks([builder EXCEPT !.chunks = Append(@, Head(chunks))], Tail(chunks))

\* Mutant of sorted_scan_plan: no chunks is an error value, not a panic.
sorted_scan_plan_empty_is_error(schema0, chunks) ==
  IF chunks = <<>> THEN Err("CreatingProvider")
  ELSE LET table_name == Head(chunks).table_name
           builder0   == ProviderBuilder_new(table_name, schema0)
           builder1   == [builder0 EXCEPT !.ensure_pk_sort = TRUE]
           builder2   == [builder1 EXCEPT !.chunk_pruner = "no_op"]
           added      == add_chunks(builder2, chunks)
       IN IF ~added.ok THEN Panic("Chunk expected table mismatch")
          ELSE Ok([plan_builder |-> TableScan(table_name, added.value, None, <<>>),
                   provider |-> added.value])

\* Mutant of sorted_scan_plan: the builder is never told ensure_pk_sort.
sorted_scan_plan_no_pk_sort(schema0, chunks) ==
  IF chunks = <<>> THEN Panic("No chunks provided to compact plan")
  ELSE LET table_name == Head(chunks).table_name
           builder0   == ProviderBuilder_new(table_name, schema0)
           builder2   == [builder0 EXCEPT !.chunk_pruner = "no_op"]
           added      == add_chunks(builder2, chunks)
       IN IF ~added.ok THEN Panic("Chunk expected table mismatch")
          ELSE Ok([plan_builder |-> TableScan(table_name, added.value, None, <<>>),
                   provider |-> added.value])

sorted_scan_plan(schema0, chunks) ==
  IF chunks = <<>> THEN Panic("No chunks provided to compact plan")
  ELSE LET table_name == Head(chunks).table_name
           builder0   == ProviderBuilder_new(table_name, schema0)
           builder1   == [builder0 EXCEPT !.ensure_pk_sort = TRUE]
           builder2   == [builder1 EXCEPT !.chunk_pruner = "no_op"]
           added      == add_chunks(builder2, chunks)
       IN IF ~added.ok THEN Panic("Chunk expected table mismatch")
          ELSE Ok([plan_builder |-> TableScan(table_name, added.value, None, <<>>),
                   provider |-> added.value])

\* Mutant of with_sort_key: a schema that has a sort key keeps it.
with_sort_key_keep_existing(schema0, output_sort) ==
  IF schema0.sort_key = NoSortKey
  THEN [schema0 EXCEPT !.sort_key = output_sort]
  ELSE schema0

\* The schema with output_sort as its sort key, copied only if the key changes.
with_sort_key(schema0, output_sort) ==
  IF schema0.sort_key = NoSortKey \/ schema0.sort_key # output_sort
  THEN [schema0 EXCEPT !.sort_key = output_sort]
  ELSE schema0

compact_plan(schema0, chunks, output_sort) ==
  LET scan_plan == sorted_scan_plan(schema0, chunks) IN
    IF scan_plan.status # "ok" THEN scan_plan
    ELSE Ok([schema |-> with_sort_key(scan_plan.provider.schema, output_sort),
             plan |-> scan_plan.plan_builder])

\* Mutant of split_expr: a strict boundary, time < split_time.
split_expr_strict(split_time) ==
  [column |-> TIME_COLUMN_NAME, op |-> "Lt", value |-> split_time]

\* time <= split_time
split_expr(split_time) ==
  [column |-> TIME_COLUMN_NAME, op |-> "LtEq", value |-> split_time]

\* Mutant of split_plan: the split is put over a scan of its own that does
\* not ask for the primary-key sort.
split_plan_own_scan(schema0, chunks, output_sort, split_time) ==
  LET scan_plan == sorted_scan_plan(schema0, chunks) IN
    IF scan_plan.status # "ok" THEN scan_plan
    ELSE LET provider == [scan_plan.provider EXCEPT !.ensure_pk_sort = FALSE]
             plan     == TableScan(provider.table_name, provider, None, <<>>)
         IN Ok([schema |-> with_sort_key(provider.schema, output_sort),
                plan |-> make_stream_split(plan, split_expr(split_time))])

split_plan(schema0, chunks, output_sort, split_time) ==
  LET scan_plan == sorted_scan_plan(schema0, chunks) IN
    IF scan_plan.status # "ok" THEN scan_plan
    ELSE Ok([schema |-> with_sort_key(scan_plan.provider.schema, output_sort),
             plan |-> make_stream_split(scan_plan.plan_builder, split_expr(split_time))])

-----------------------------------------------------------------------------
(* The ingester's query handler (ingester/src/querier_handler.rs) *)

\* Schema::compute_select_indicies: the positions of the columns in the schema.
compute_select_indicies(schema0, columns) ==
  IF \E i \in 1..Len(columns) : columns[i] \notin Range(schema0.columns)
  THEN [ok |-> FALSE]
  ELSE [ok |-> TRUE,
        value |-> [i \in 1..Len(columns) |->
                     CHOOSE k \in 1..Len(schema0.columns) : schema0.columns[k] = columns[i]]]

\* Mutant of query: the filter expression of the predicate is left out of
\* the plan.
query_without_filter(data, predicate, selection) ==
  LET found   == IF selection.all THEN [ok |-> TRUE]
                 ELSE compute_select_indicies(schema(data), selection.columns)
      indices == IF selection.all THEN None ELSE Some(found.value)
  IN IF ~found.ok THEN Err("SelectColumns")
     ELSE LET built == scan_single_chunk_plan_with_filter(schema(data), data, indices, <<>>)
          IN Ok([plan |-> built.plan, out |-> Execute(built.plan)])

query(data, predicate, selection) ==
  LET found   == IF selection.all THEN [ok |-> TRUE]
                 ELSE compute_select_indicies(schema(data), selection.columns)
      indices == IF selection.all THEN None ELSE Some(found.value)
      expr    == IF predicate.some THEN <<predicate.value>> ELSE <<>>
  IN IF ~found.ok THEN Err("SelectColumns")
     ELSE LET built == scan_single_chunk_plan_with_filter(schema(data), data, indices, expr)
          IN Ok([plan |-> built.plan, out |-> Execute(built.plan)])

-----------------------------------------------------------------------------
(* Inputs of the calls *)

SplitTimes == 0..MaxTime

\* The chunks of the one-chunk lists.
SingleChunks == {cl[1] : cl \in {l \in GoodChunkLists : Len(l) = 1}}

\* The snapshots of a batch: n rows cut into consecutive snapshots, each
\* tagged with its position as sequence number.
SnapshotLists(n) ==
  IF n = 0 THEN {<<>>}
  ELSE UNION {
         {LET segs == Segments(rows, cuts) IN
            [j \in 1..Len(segs) |-> SnapshotBatch(j, j, RecordBatch(ColumnOrder, segs[j]))]
          : cuts \in SUBSET (1..(n - 1))}
         : rows \in RowSeqs(n, 1)}

TombstoneLists(n) == [1..n -> Tombstones]

\* The (data, deletes) pairs of at most MaxBatchSize rows and tombstones.
BatchInputs ==
  UNION {
    UNION {SnapshotLists(n) \X TombstoneLists(d) : d \in 0..(MaxBatchSize - n)}
    : n \in 0..MaxBatchSize}

Selections ==
  {SelectionAll, SelectionSome(<<"tag1", "time">>), SelectionSome(<<"foo">>)}

Predicates == {None, Some([column |-> "tag1", op |-> "Eq", value |-> 2])}

-----------------------------------------------------------------------------
(* The router server type (ioxd_router/src/lib.rs) *)

MaxJoins == 4

MaxShutdowns == 2

\* tokio_util::sync::CancellationToken: new, cancel, and whether a
\* cancelled() future is ready.
CancellationToken_new == [cancelled |-> FALSE]

cancel(token) == [token EXCEPT !.cancelled = TRUE]

cancelled(token) == token.cancelled

\* RouterServerType::new: a fresh token.
RouterServerType_new == [shutdown |-> CancellationToken_new]

\* Mutant of shutdown: the token is not cancelled.
shutdown_without_cancel(self) == self

\* RouterServerType::shutdown.
shutdown(self) == [self EXCEPT !.shutdown = cancel(@)]

\* RouterServerType::join is ready when the token's cancelled() is.
join_ready(self) == cancelled(self.shutdown)

-----------------------------------------------------------------------------
(* The state machine *)

NoCall == [op |-> "none"]

NoRet == [status |-> "none"]

\* A plan that was built is run by the caller; its partitions are `out`.
Run(built) ==
  IF built.status = "ok" THEN built @@ [out |-> Execute(built.plan)] ELSE built

Init ==
  /\ pc = "idle"
  /\ call = NoCall
  /\ ret = NoRet
  /\ batch = None
  /\ router = [server |-> RouterServerType_new,
               joins |-> [i \in 1..MaxJoins |-> "none"],
               shutdowns |-> 0]

\* ReorgPlanner::compact_plan over catalog chunks, and the run of its plan.
CompactPlan ==
  /\ pc = "idle"
  /\ ~batch.some
  /\ \E schema0 \in TableSchemas, chunks \in ChunkLists, output_sort \in SortKeys :
       /\ call' = [op |-> "compact_plan", schema |-> schema0, chunks |-> chunks,
                   output_sort |-> output_sort]
       /\ ret' = Run(compact_plan(schema0, chunks, output_sort))
  /\ pc' = "done"
  /\ UNCHANGED <<batch, router>>

\* ReorgPlanner::split_plan over catalog chunks, and the run of its plan.
SplitPlan ==
  /\ pc = "idle"
  /\ ~batch.some
  /\ \E schema0 \in TableSchemas, chunks \in ChunkLists, output_sort \in SortKeys,
        split_time \in SplitTimes :
       /\ call' = [op |-> "split_plan", schema |-> schema0, chunks |-> chunks,
                   output_sort |-> output_sort, split_time |-> split_time]
       /\ ret' = Run(split_plan(schema0, chunks, output_sort, split_time))
  /\ pc' = "done"
  /\ UNCHANGED <<batch, router>>

\* ReorgPlanner::scan_single_chunk_plan over a catalog chunk, and its run.
ScanSingleChunkPlan ==
  /\ pc = "idle"
  /\ ~batch.some
  /\ \E schema0 \in TableSchemas \cup {WideSchema}, chunk \in SingleChunks :
       /\ call' = [op |-> "scan_single_chunk_plan", schema |-> schema0, chunk |-> chunk]
       /\ ret' = Run(scan_single_chunk_plan(schema0, chunk))
  /\ pc' = "done"
  /\ UNCHANGED <<batch, router>>

\* QueryableBatch::new; a panic leaves no batch behind.
New ==
  /\ pc = "idle"
  /\ ~batch.some
  /\ \E input \in BatchInputs :
       LET made == QueryableBatch_new("t", input[1], input[2]) IN
         /\ call' = [op |-> "new", table_name |-> "t", data |-> input[1],
                     deletes |-> input[2]]
         /\ ret' = [status |-> made.status]
         /\ batch' = IF made.status = "ok" THEN Some(made.value) ELSE None
  /\ pc' = "done"
  /\ UNCHANGED router

\* QueryableBatch::delete_predicates on the batch at hand.
DeletePredicates ==
  /\ pc = "idle"
  /\ batch.some
  /\ call' = [op |-> "delete_predicates"]
  /\ ret' = Ok([value |-> delete_predicates(batch.value)])
  /\ pc' = "done"
  /\ UNCHANGED <<batch, router>>

\* querier_handler::query on the batch at hand.
Query ==
  /\ pc = "idle"
  /\ batch.some
  /\ \E predicate \in Predicates, selection \in Selections :
       /\ call' = [op |-> "query", predicate |-> predicate, selection |-> selection]
       /\ ret' = query(batch.value, predicate, selection)
  /\ pc' = "done"
  /\ UNCHANGED <<batch, router>>

\* QueryableBatch::min_max_sequence_numbers on the batch at hand.
MinMaxSequenceNumbers ==
  /\ pc = "idle"
  /\ batch.some
  /\ call' = [op |-> "min_max_sequence_numbers"]
  /\ ret' = min_max_sequence_numbers(batch.value)
  /\ pc' = "done"
  /\ UNCHANGED <<batch, router>>

\* The caller takes the result.
Return ==
  /\ pc = "done"
  /\ pc' = "idle"
  /\ call' = NoCall
  /\ ret' = NoRet
  /\ UNCHANGED <<batch, router>>

\* The batch is discarded at the end of its cycle.
Drop ==
  /\ pc = "idle"
  /\ batch.some
  /\ batch' = None
  /\ UNCHANGED <<pc, call, ret, router>>

Next ==
  \/ CompactPlan
  \/ SplitPlan
  \/ ScanSingleChunkPlan
  \/ New
  \/ DeletePredicates
  \/ Query
  \/ MinMaxSequenceNumbers
  \/ Return
  \/ Drop

Spec == Init /\ [][Next]_vars

-----------------------------------------------------------------------------
(* The QueryableBatch over snapshots that differ in their columns *)

\* The columns of a snapshot besides time.
SnapshotColumnSets == {{"field_int", "tag1"}, {"field_int", "tag2"}, {"tag1", "tag2"}}

\* How a snapshot declares its columns: all nullable, none nullable, or
\* field_int as a string column.
SnapshotVariants ==
  {[nullable |-> TRUE,  field_type |-> "I64"],
   [nullable |-> FALSE, field_type |-> "I64"],
   [nullable |-> TRUE,  field_type |-> "String"]}

Reverse(q) == [i \in 1..Len(q) |-> q[Len(q) + 1 - i]]

\* The fields of a snapshot: its columns by name or in the reverse order;
\* time is never nullable.
SnapshotFields(cols, variant, reversed) ==
  LET names == SortedCols(cols \cup {TIME_COLUMN_NAME})
      fields == [i \in 1..Len(names) |->
                   Field(names[i],
                         IF names[i] = "field_int" THEN variant.field_type
                         ELSE ColType[names[i]],
                         names[i] # TIME_COLUMN_NAME /\ variant.nullable)]
  IN IF reversed THEN Reverse(fields) ELSE fields

SnapshotShapes ==
  {SnapshotFields(cols, variant, reversed) :
     cols \in SnapshotColumnSets, variant \in SnapshotVariants, reversed \in BOOLEAN}

\* The rows of the snapshot at position j: field_int tells the rows apart,
\* and a nullable tag is null in the second row.
SnapshotRows(fields, j) ==
  LET n == IF fields[1].name = TIME_COLUMN_NAME THEN 1 ELSE MaxSnapshotRows
      value(f, i) ==
        CASE f.name = TIME_COLUMN_NAME -> i
          [] f.name = "field_int" -> 10 * j + i
          [] OTHER -> IF f.nullable /\ i = 2 THEN NULL ELSE 1 + ((i + j) % 2)
  IN [i \in 1..n |->
        [c \in {fields[k].name : k \in 1..Len(fields)} |->
           value(fields[CHOOSE k \in 1..Len(fields) : fields[k].name = c], i)]]

\* Snapshots in the order of their writes: the snapshot at position j holds
\* the sequence numbers 2j-1 and 2j.
MixedSnapshotLists ==
  UNION {
    {[j \in 1..n |->
        SnapshotBatch(2 * j - 1, 2 * j,
                      try_from_iter_with_nullable(shapes[j], SnapshotRows(shapes[j], j)))]
     : shapes \in [1..n -> SnapshotShapes]}
    : n \in 0..MaxSnapshots}

MixedTombstoneLists ==
  {<<>>,
   <<Tombstone(1, 1, TextTagEq)>>,
   <<Tombstone(1, 2, TextFieldNeAndTag), Tombstone(2, 2, TextTagEq)>>}

BatchSelections ==
  {SelectionAll,
   SelectionSome(<<"time", "field_int">>),
   SelectionSome(<<"tag1", "time">>),
   SelectionSome(<<"tag1", "tag2">>),
   SelectionSome(<<"tag2">>),
   SelectionSome(<<"foo">>)}

\* QueryableBatch::new over snapshots that differ in their columns.
NewMixed ==
  /\ pc = "idle"
  /\ ~batch.some
  /\ \E data \in MixedSnapshotLists, deletes \in MixedTombstoneLists :
       LET made == QueryableBatch_new("t", data, deletes) IN
         /\ call' = [op |-> "new", table_name |-> "t", data |-> data,
                     deletes |-> deletes]
         /\ ret' = [status |-> made.status]
         /\ batch' = IF made.status = "ok" THEN Some(made.value) ELSE None
  /\ pc' = "done"
  /\ UNCHANGED router

\* QueryableBatch::schema on the batch at hand.
SchemaOf ==
  /\ pc = "idle"
  /\ batch.some
  /\ call' = [op |-> "schema"]
  /\ ret' = LET merged == schema(batch.value) IN
              IF IsPanic(merged) THEN merged ELSE Ok([value |-> merged])
  /\ pc' = "done"
  /\ UNCHANGED <<batch, router>>

\* QueryableBatch::read_filter on the batch at hand.
ReadFilter ==
  /\ pc = "idle"
  /\ batch.some
  /\ \E predicate \in Predicates, selection \in BatchSelections :
       /\ call' = [op |-> "read_filter", predicate |-> predicate,
                   selection |-> selection]
       /\ ret' = read_filter(batch.value, predicate, selection)
  /\ pc' = "done"
  /\ UNCHANGED <<batch, router>>

\* QueryableBatch::apply_predicate_to_metadata on the batch at hand.
ApplyPredicateToMetadata ==
  /\ pc = "idle"
  /\ batch.some
  /\ \E predicate \in Predicates :
       /\ call' = [op |-> "apply_predicate_to_metadata", predicate |-> predicate]
       /\ ret' = apply_predicate_to_metadata(batch.value, predicate)
  /\ pc' = "done"
  /\ UNCHANGED <<batch, router>>

\* ReorgPlanner::compact_plan with the batch at hand as its only chunk.  The
\* schema is the caller's to give: here, the schema of the first snapshot.
CompactBatch ==
  /\ pc = "idle"
  /\ batch.some
  /\ batch.value.data # <<>>
  /\ \E output_sort \in SortKeys :
       LET schema0 == merge_record_batch_schemas(<<Head(batch.value.data).data>>) IN
         /\ call' = [op |-> "compact_plan", schema |-> schema0,
                     chunks |-> <<batch.value>>, output_sort |-> output_sort]
         /\ ret' = compact_plan(schema0, <<batch.value>>, output_sort)
  /\ pc' = "done"
  /\ UNCHANGED <<batch, router>>

BatchNext ==
  \/ NewMixed
  \/ SchemaOf
  \/ ReadFilter
  \/ MinMaxSequenceNumbers
  \/ ApplyPredicateToMetadata
  \/ CompactBatch
  \/ Return
  \/ Drop

BatchSpec == Init /\ [][BatchNext]_vars

-----------------------------------------------------------------------------
(* Properties *)

Returned(op) == pc = "done" /\ call.op = op /\ ret.status = "ok"

\* The rows of all input chunks of a planning call, in chunk order.
InputRows(chunks) == Concat([j \in 1..Len(chunks) |-> chunks[j].rows])

\* Number of positions of s holding r.
Count(s, r) == Cardinality({i \in 1..Len(s) : s[i] = r})

\* s is t with some rows left out, the others in t's order.
RECURSIVE IsSubsequence(_, _)
IsSubsequence(s, t) ==
  IF s = <<>> THEN TRUE
  ELSE IF t = <<>> THEN FALSE
  ELSE IF Head(s) = Head(t) THEN IsSubsequence(Tail(s), Tail(t))
  ELSE IsSubsequence(s, Tail(t))

\* Row a comes strictly before row b under a sort key.
RECURSIVE KeyBefore(_, _, _)
KeyBefore(key, a, b) ==
  /\ key # <<>>
  /\ LET k  == Head(key)
         va == a[k.col]
         vb == b[k.col]
     IN IF va = vb THEN KeyBefore(Tail(key), a, b)
        ELSE IF va = NULL THEN k.nulls_first
        ELSE IF vb = NULL THEN ~k.nulls_first
        ELSE IF k.descending THEN va > vb ELSE va < vb

SortedBy(key, rows) ==
  \A i \in 1..(Len(rows) - 1) : ~KeyBefore(key, rows[i + 1], rows[i])

\* C1: split_plan yields exactly two partitions; an output row is in
\* partition 0 iff its time <= split_time and in partition 1 iff its time
\* is greater, so every output row is in exactly one of them.
C1_SplitRoutesOnTime ==
  Returned("split_plan") =>
    /\ Len(ret.out) = 2
    /\ \A r \in Range(ret.out[1]) \cup Range(ret.out[2]) :
         /\ r \in Range(ret.out[1]) <=> r.time <= call.split_time
         /\ r \in Range(ret.out[2]) <=> r.time > call.split_time

\* A split with a row exactly on the boundary and a row after it.
C1_Witness ==
  /\ Returned("split_plan")
  /\ \E r \in Range(ret.out[1]) : r.time = call.split_time
  /\ ret.out[2] # <<>>

\* C2 (as claimed): the rows of each partition of split_plan are ordered by
\* the requested output_sort key.
C2_SplitPartitionsSortedByOutputSort ==
  Returned("split_plan") =>
    /\ SortedBy(call.output_sort, ret.out[1])
    /\ SortedBy(call.output_sort, ret.out[2])

\* C3: each partition of split_plan is an order-preserving subsequence of
\* the output of compact_plan over the same chunks and sort key, and the two
\* partitions together hold every row of that output exactly once.
C3_SplitOnlyRoutes ==
  Returned("split_plan") =>
    LET compacted == Run(compact_plan(call.schema, call.chunks, call.output_sort)).out[1]
    IN /\ Len(ret.out) = 2
       /\ IsSubsequence(ret.out[1], compacted)
       /\ IsSubsequence(ret.out[2], compacted)
       /\ Len(ret.out[1]) + Len(ret.out[2]) = Len(compacted)
       /\ \A r \in Range(compacted) :
            Count(ret.out[1], r) + Count(ret.out[2], r) = Count(compacted, r)

\* A split that routes rows to both partitions, out of chunks whose rows
\* were not in primary-key order.
C3_Witness ==
  /\ Returned("split_plan")
  /\ ret.out[1] # <<>>
  /\ ret.out[2] # <<>>
  /\ ret.out[1] \o ret.out[2] # InputRows(call.chunks)
  /\ Len(InputRows(call.chunks)) = Len(ret.out[1]) + Len(ret.out[2])

\* C4 (as claimed): the output of compact_plan is ordered by output_sort's
\* columns, directions and null ordering.
C4_CompactSortedByOutputSort ==
  Returned("compact_plan") => SortedBy(call.output_sort, ret.out[1])

\* The scan node of a plan.
ScanNode(plan) == IF plan.node = "StreamSplit" THEN plan.input ELSE plan

\* C5: the scan built by compact_plan and split_plan requests the
\* primary-key sort; its rows are ordered by tag ascending, then time
\* ascending, and rows of one primary key are contiguous.
C5_ScanSortedOnPk ==
  (Returned("compact_plan") \/ Returned("split_plan")) =>
    LET node == ScanNode(ret.plan)
        rows == IF ret.plan.node = "StreamSplit" THEN ExecuteScan(node) ELSE ret.out[1]
    IN /\ node.provider.ensure_pk_sort
       /\ \A i, j \in 1..Len(rows) :
            i < j => \/ rows[i].tag1 < rows[j].tag1
                     \/ rows[i].tag1 = rows[j].tag1 /\ rows[i].time <= rows[j].time
       /\ \A i, k \in 1..Len(rows) :
            (i < k /\ rows[i].tag1 = rows[k].tag1 /\ rows[i].time = rows[k].time)
              => \A j \in i..k : rows[j].tag1 = rows[i].tag1 /\ rows[j].time = rows[i].time

\* A compaction whose input was not in primary-key order.
C5_Witness ==
  /\ Returned("compact_plan")
  /\ Len(ret.out[1]) = 2
  /\ ret.out[1] # InputRows(call.chunks)
  /\ ret.out[1][1].tag1 < ret.out[1][2].tag1

\* The primary keys of a set of rows.
KeysOf(rows) == {<<r.tag1, r.time>> : r \in rows}

\* The rows of the chunks that none of their chunk's delete predicates matches.
SurvivingRows(chunks) ==
  UNION {{r \in Range(chunks[j].rows) : ~Deleted(chunks[j].delete_predicates, r)}
         : j \in 1..Len(chunks)}

\* The output holds exactly one row of each of the keys, and no other key.
OneRowPerKey(out, keys) ==
  /\ \A k \in keys :
       Cardinality({i \in 1..Len(out) : <<out[i].tag1, out[i].time>> = k}) = 1
  /\ KeysOf(Range(out)) \subseteq keys

\* C6 (as claimed): the output of a compact plan holds exactly one row of
\* every primary key that occurs in the input chunks, and no other key.
C6_CompactOneRowPerInputKey ==
  Returned("compact_plan") =>
    OneRowPerKey(ret.out[1], KeysOf(Range(InputRows(call.chunks))))

\* C6 (amended): the output of a compact plan holds exactly one row of every
\* primary key that occurs among the input rows which none of their chunk's
\* delete predicates matches, and no other key.
C6_CompactOneRowPerSurvivingKey ==
  Returned("compact_plan") =>
    OneRowPerKey(ret.out[1], KeysOf(SurvivingRows(call.chunks)))

\* A compaction of two chunks holding the same primary key, one row of
\* which survives.
C6_Witness ==
  /\ Returned("compact_plan")
  /\ Len(call.chunks) = 2
  /\ Len(InputRows(call.chunks)) = 2
  /\ Cardinality(KeysOf(Range(InputRows(call.chunks)))) = 1
  /\ SurvivingRows(call.chunks) = Range(InputRows(call.chunks))
  /\ Len(ret.out[1]) = 1

\* The rows held by the snapshots of a batch, in snapshot order.
BatchRows(b) == Concat([i \in 1..Len(b.data) |-> b.data[i].data.rows])

\* Every row of the partitions is a row of `rows` that none of `preds`
\* matches, seen through the output columns.
OnlyUndeleted(out, rows, preds) ==
  \A p \in 1..Len(out) : \A r \in Range(out[p]) :
    \E x \in Range(rows) : ~Deleted(preds, x) /\ Pad(x, DOMAIN r) = r

\* C7: in the output of every plan (compact, split, single-chunk scan, and
\* the scan built by query) a row of a chunk appears only if none of that
\* chunk's delete predicates matches it.
C7_DeletesHonored ==
  /\ (Returned("compact_plan") \/ Returned("split_plan")) =>
       \A p \in 1..Len(ret.out) : \A r \in Range(ret.out[p]) :
         \E j \in 1..Len(call.chunks) :
           OnlyUndeleted(<<<<r>>>>, call.chunks[j].rows, call.chunks[j].delete_predicates)
  /\ Returned("scan_single_chunk_plan") =>
       OnlyUndeleted(ret.out, call.chunk.rows, call.chunk.delete_predicates)
  /\ Returned("query") =>
       OnlyUndeleted(ret.out, BatchRows(batch.value), batch.value.delete_predicates)

\* A query over a batch with two tombstones whose only row is deleted by
\* the second of them alone.
C7_Witness ==
  /\ Returned("query")
  /\ Len(batch.value.delete_predicates) = 2
  /\ \E r \in Range(BatchRows(batch.value)) :
       /\ ~DeleteMatches(batch.value.delete_predicates[1], r)
       /\ DeleteMatches(batch.value.delete_predicates[2], r)
  /\ Len(BatchRows(batch.value)) = 1
  /\ ret.out = <<<<>>>>

\* What the two well-formed predicate texts say of a row, and their clauses.
TextHolds(text, row) ==
  IF text = TextTagEq THEN row.tag1 = 1
  ELSE row.field_int # 1 /\ row.tag1 = 2

TextClauses(text) ==
  IF text = TextTagEq THEN <<DeleteExpr("tag1", "Eq", Scalar("String", 1))>>
  ELSE <<DeleteExpr("field_int", "Ne", Scalar("I64", 1)),
         DeleteExpr("tag1", "Eq", Scalar("String", 2))>>

\* A tombstone excludes a row: time in [min_time, max_time], all clauses hold.
TombstoneExcludes(t, row) ==
  /\ t.min_time <= row.time
  /\ row.time <= t.max_time
  /\ TextHolds(t.serialized_predicate, row)

AllRows == {Row(tag, time, f) : tag \in Tags, time \in Times, f \in 1..MaxBatchSize}

\* C8: the delete predicate derived from a tombstone excludes a row iff the
\* row's time is in [min, max] and every clause of the text holds of it; a
\* query over a batch with that one tombstone returns only the other rows,
\* and a row of each of their primary keys.
C8_DerivedPredicateSemantics ==
  batch.some =>
    LET b == batch.value IN
      /\ \A i \in 1..Len(b.deletes) : \A r \in AllRows :
           i <= Len(b.delete_predicates) =>
             (DeleteMatches(b.delete_predicates[i], r) <=> TombstoneExcludes(b.deletes[i], r))
      /\ (Returned("query") /\ call.selection.all /\ ~call.predicate.some
            /\ Len(b.deletes) = 1) =>
           /\ Range(ret.out[1])
                \subseteq {r \in Range(BatchRows(b)) : ~TombstoneExcludes(b.deletes[1], r)}
           /\ {PkKey(r) : r \in Range(ret.out[1])}
                = {PkKey(r) : r \in {x \in Range(BatchRows(b)) :
                                       ~TombstoneExcludes(b.deletes[1], x)}}

\* A query over a batch with one tombstone that excludes one row and keeps
\* a row of which the clauses hold but whose time is outside the range.
C8_Witness ==
  /\ Returned("query")
  /\ call.selection.all
  /\ ~call.predicate.some
  /\ Len(batch.value.deletes) = 1
  /\ Len(BatchRows(batch.value)) = 2
  /\ Len(ret.out[1]) = 1
  /\ TextHolds(batch.value.deletes[1].serialized_predicate, ret.out[1][1])
  /\ ret.out[1][1].time > batch.value.deletes[1].max_time

\* C9: the delete predicates of a batch are derived 1:1 from its tombstones:
\* same length and order, the i-th with the range [min_time, max_time] and
\* the clauses, in text order, of the i-th tombstone; also with no
\* snapshots; every call of delete_predicates() returns that list.
C9_PredicatesOneToOne ==
  batch.some =>
    LET b == batch.value IN
      /\ Len(b.delete_predicates) = Len(b.deletes)
      /\ \A i \in 1..Len(b.deletes) :
           b.delete_predicates[i] =
             DeletePredicate(b.deletes[i].min_time, b.deletes[i].max_time,
                             TextClauses(b.deletes[i].serialized_predicate))
      /\ Returned("delete_predicates") =>
           /\ Len(ret.value) = Len(b.deletes)
           /\ \A i \in 1..Len(b.deletes) :
                ret.value[i] =
                  DeletePredicate(b.deletes[i].min_time, b.deletes[i].max_time,
                                  TextClauses(b.deletes[i].serialized_predicate))

\* delete_predicates() on a batch without snapshots and with two different
\* tombstones.
C9_Witness ==
  /\ Returned("delete_predicates")
  /\ batch.value.data = <<>>
  /\ Len(batch.value.deletes) = 2
  /\ batch.value.deletes[1] # batch.value.deletes[2]
  /\ Len(ret.value) = 2

\* C10: if a tombstone is malformed QueryableBatch::new panics and leaves no
\* batch; no batch has fewer delete predicates than tombstones.
C10_MalformedTombstoneIsFatal ==
  /\ (pc = "done" /\ call.op = "new"
        /\ \E i \in 1..Len(call.deletes) : call.deletes[i] \in BadTombstones) =>
       ret.status = "panic" /\ ~batch.some
  /\ batch.some =>
       /\ Len(batch.value.delete_predicates) >= Len(batch.value.deletes)
       /\ \A i \in 1..Len(batch.value.deletes) :
            batch.value.deletes[i] \notin BadTombstones

\* A construction that panics on a malformed tombstone that follows a
\* well-formed one.
C10_Witness ==
  /\ pc = "done"
  /\ call.op = "new"
  /\ Len(call.deletes) = 2
  /\ call.deletes[1] \in GoodTombstones
  /\ call.deletes[2] \in BadTombstones
  /\ ret.status = "panic"
  /\ ~batch.some

-----------------------------------------------------------------------------
(* Properties of the QueryableBatch over snapshots that differ in columns *)

Orderings(n) ==
  {p \in [1..n -> 1..n] : \A i, j \in 1..n : p[i] = p[j] => i = j}

NameRank(c) == CHOOSE k \in 1..Len(NameOrder) : NameOrder[k] = c

\* The columns of the i-th snapshot of the batch at hand.
SnapshotColumns(i) == Range(batch.value.data[i].data.columns)

SnapshotCount == Len(batch.value.data)

\* C11: the schema of a QueryableBatch whose snapshot schemas merge does not
\* depend on the order of the snapshots: every permutation of them merges to
\* the same columns, in the same order, with the same nullability.
C11_SchemaMergeCommutes ==
  Returned("schema") =>
    \A p \in Orderings(SnapshotCount) :
      LET permuted == [i \in 1..SnapshotCount |-> batch.value.data[p[i]]]
      IN schema([batch.value EXCEPT !.data = permuted]) = ret.value

\* Two snapshots that differ in their columns and disagree on the nullability
\* of a column they share.
C11_Witness ==
  /\ Returned("schema")
  /\ SnapshotCount = 2
  /\ SnapshotColumns(1) # SnapshotColumns(2)
  /\ \E c \in SnapshotColumns(1) \cap SnapshotColumns(2) :
       batch.value.data[1].data.nullable[c] # batch.value.data[2].data.nullable[c]

\* C12: the merged schema holds exactly the column names of the snapshots,
\* each once, in lexicographic order of the names, whatever the order of the
\* columns inside a snapshot and of the snapshots.
C12_MergedColumnsSortedUnion ==
  Returned("schema") =>
    LET cols == ret.value.columns IN
      /\ Range(cols) = UNION {SnapshotColumns(i) : i \in 1..SnapshotCount}
      /\ \A i, j \in 1..Len(cols) : i < j => NameRank(cols[i]) < NameRank(cols[j])

\* A first snapshot whose columns are not in name order, and a second one
\* that brings a column of its own.
C12_Witness ==
  /\ Returned("schema")
  /\ SnapshotCount = 2
  /\ \E i, j \in 1..Len(batch.value.data[1].data.columns) :
       /\ i < j
       /\ NameRank(batch.value.data[1].data.columns[j])
            < NameRank(batch.value.data[1].data.columns[i])
  /\ SnapshotColumns(2) \ SnapshotColumns(1) # {}
  /\ Len(ret.value.columns) = 4

\* C13: a column that some snapshot lacks is nullable in the merged schema,
\* and a column is non-nullable in the merged schema only if every snapshot
\* has it and declares it non-nullable.
C13_NullabilityWidening ==
  Returned("schema") =>
    \A c \in Range(ret.value.columns) :
      /\ (\E i \in 1..SnapshotCount : c \notin SnapshotColumns(i))
           => ret.value.nullable[c]
      /\ ~ret.value.nullable[c]
           => \A i \in 1..SnapshotCount :
                /\ c \in SnapshotColumns(i)
                /\ ~batch.value.data[i].data.nullable[c]

\* Two of the snapshots declare a column of the same name with different types.
Conflicting(data) ==
  \E i, j \in 1..Len(data) :
    \E c \in Range(data[i].data.columns) \cap Range(data[j].data.columns) :
      data[i].data.types[c] # data[j].data.types[c]

\* C14: merging schemas that give one column name two types is a
\* SchemaConflict error value naming the column, and compact_plan over a
\* chunk with such schemas returns the ChunkSchemaNotCompatible error.
C14_ConflictIsSchemaConflictError ==
  /\ (batch.some /\ Conflicting(batch.value.data)) =>
       LET merged == merge_schemas(
                       [i \in 1..SnapshotCount |-> BatchFields(batch.value.data[i].data)])
       IN /\ ~merged.ok
          /\ merged.error.kind = "SchemaConflict"
          /\ \E i, j \in 1..SnapshotCount :
               /\ merged.error.column \in SnapshotColumns(i) \cap SnapshotColumns(j)
               /\ batch.value.data[i].data.types[merged.error.column]
                    # batch.value.data[j].data.types[merged.error.column]
  /\ (pc = "done" /\ call.op = "compact_plan" /\ Conflicting(call.chunks[1].data)) =>
       ret = Err("ChunkSchemaNotCompatible")

\* The rows read_filter is to return, each with the snapshot it comes from:
\* the rows of the snapshots that have a selected column, in snapshot order.
Origins(data, selection) ==
  LET has(s) == selection.all
                  \/ Range(s.data.columns) \cap Range(selection.columns) # {}
      kept == SelectSeq(data, has)
  IN Concat([i \in 1..Len(kept) |->
               [j \in 1..Len(kept[i].data.rows) |->
                  [columns |-> Range(kept[i].data.columns),
                   row |-> kept[i].data.rows[j]]]])

\* C15: in the result of read_filter a row has null in every result column
\* its snapshot lacks, and its snapshot's value in every other result column.
C15_ReadFilterPadsWithNulls ==
  Returned("read_filter") =>
    LET out    == StreamRows(ret)
        origin == Origins(batch.value.data, call.selection)
    IN /\ Len(out) = Len(origin)
       /\ \A k \in 1..Len(out) :
            /\ DOMAIN out[k] = Range(ret.schema.columns)
            /\ \A c \in Range(ret.schema.columns) :
                 out[k][c] = IF c \in origin[k].columns THEN origin[k].row[c] ELSE NULL

\* tag1 and tag2 selected over a snapshot without tag2 and one without tag1.
C15_Witness ==
  /\ Returned("read_filter")
  /\ call.selection = SelectionSome(<<"tag1", "tag2">>)
  /\ Range(ret.schema.columns) = {"tag1", "tag2"}
  /\ LET out    == StreamRows(ret)
         origin == Origins(batch.value.data, call.selection)
     IN /\ \E k \in 1..Len(out) :
             "tag1" \notin origin[k].columns /\ out[k]["tag1"] = NULL /\ out[k]["tag2"] # NULL
        /\ \E k \in 1..Len(out) :
             "tag2" \notin origin[k].columns /\ out[k]["tag2"] = NULL /\ out[k]["tag1"] # NULL

\* C16: if every snapshot has every selected column, read_filter returns
\* exactly the selected columns and, for every row of every snapshot in
\* order, its values in them; with Selection::All it returns every column of
\* the merged schema.
C16_ReadFilterProjection ==
  Returned("read_filter") =>
    LET data     == batch.value.data
        sel      == call.selection
        out      == StreamRows(ret)
        all_rows == Concat([i \in 1..Len(data) |-> data[i].data.rows])
    IN /\ sel.all => ret.schema.columns = schema(batch.value).columns
       /\ (/\ ~sel.all
           /\ data # <<>>
           /\ \A i \in 1..Len(data) : Range(sel.columns) \subseteq SnapshotColumns(i))
            => /\ Range(ret.schema.columns) = Range(sel.columns)
               /\ Len(out) = Len(all_rows)
               /\ \A k \in 1..Len(out) :
                    /\ DOMAIN out[k] = Range(sel.columns)
                    /\ \A c \in Range(sel.columns) : out[k][c] = all_rows[k][c]

\* time and field_int selected over two snapshots that both have them and
\* differ in their other columns.
C16_Witness ==
  /\ Returned("read_filter")
  /\ call.selection = SelectionSome(<<"time", "field_int">>)
  /\ SnapshotCount = 2
  /\ "field_int" \in SnapshotColumns(1) \cap SnapshotColumns(2)
  /\ SnapshotColumns(1) # SnapshotColumns(2)
  /\ Len(StreamRows(ret)) >= 3

\* No snapshot has a selected column (or there is no snapshot at all).
NothingSelected(data, selection) ==
  \/ data = <<>>
  \/ /\ ~selection.all
     /\ \A i \in 1..Len(data) :
          Range(data[i].data.columns) \cap Range(selection.columns) = {}

\* C17: read_filter with a selection that names no column of any snapshot,
\* or over no snapshot, returns Ok with no row and the empty schema.
C17_EmptySelectionIsOk ==
  (/\ pc = "done"
   /\ call.op = "read_filter"
   /\ NothingSelected(batch.value.data, call.selection))
    => /\ ret.status = "ok"
       /\ StreamRows(ret) = <<>>
       /\ ret.schema.columns = <<>>

\* A column no snapshot has, selected over a batch that has rows.
C17_Witness ==
  /\ pc = "done"
  /\ call.op = "read_filter"
  /\ call.selection = SelectionSome(<<"foo">>)
  /\ SnapshotCount >= 1
  /\ ret.status = "ok"
  /\ ret.batches = <<>>

C19_ReadFilterSkipsDeletes ==
  Returned("read_filter") =>
    /\ ret = read_filter(QueryableBatch_new("t", batch.value.data, <<>>).value,
                         call.predicate, call.selection)
    /\ Len(StreamRows(ret)) = Len(Origins(batch.value.data, call.selection))

\* A row that a delete predicate of the batch matches is returned.
C19_Witness ==
  /\ Returned("read_filter")
  /\ call.selection = SelectionAll
  /\ \E k \in 1..Len(StreamRows(ret)) :
       Deleted(delete_predicates(batch.value), StreamRows(ret)[k])

\* C20: min_max_sequence_numbers returns the least min_sequencer_number and
\* the greatest max_sequencer_number of all the snapshots, the first at most
\* the second.
C20_MinMaxOverAllSnapshots ==
  Returned("min_max_sequence_numbers") =>
    /\ \A i \in 1..SnapshotCount :
         /\ ret.value[1] <= batch.value.data[i].min_sequencer_number
         /\ batch.value.data[i].max_sequencer_number <= ret.value[2]
    /\ \E i \in 1..SnapshotCount : ret.value[1] = batch.value.data[i].min_sequencer_number
    /\ \E i \in 1..SnapshotCount : ret.value[2] = batch.value.data[i].max_sequencer_number
    /\ ret.value[1] <= ret.value[2]

-----------------------------------------------------------------------------
(* Properties of the planner's failures and schemas *)

\* A planning call (compact_plan or split_plan) that has returned.
Planned == pc = "done" /\ call.op \in {"compact_plan", "split_plan"}

\* C21: compact_plan or split_plan with no chunks, and
\* min_max_sequence_numbers on a batch with no snapshots, end in a panic
\* that carries no plan, schema or pair and is not an error value.
C21_NoInputIsPanic ==
  /\ (Planned /\ call.chunks = <<>>) =>
        ret = Panic("No chunks provided to compact plan")
  /\ (pc = "done" /\ call.op = "min_max_sequence_numbers" /\ batch.value.data = <<>>) =>
        ret = Panic("The Queryable Batch should not empty")

\* split_plan was called with no chunks and panicked.
C21_Witness ==
  /\ pc = "done"
  /\ call.op = "split_plan"
  /\ call.chunks = <<>>
  /\ IsPanic(ret)

\* C22: a chunk whose table name differs from the first chunk's, at
\* whatever position, makes compact_plan and split_plan panic; no provider
\* and no plan come back.
C22_TableMismatchIsPanic ==
  (Planned /\ \E i \in 1..Len(call.chunks) :
                call.chunks[i].table_name # call.chunks[1].table_name) =>
    ret = Panic("Chunk expected table mismatch")

\* The third chunk is of another table than the first two, and the call
\* panicked.
C22_Witness ==
  /\ pc = "done"
  /\ call.op = "compact_plan"
  /\ Len(call.chunks) = 3
  /\ call.chunks[2].table_name = call.chunks[1].table_name
  /\ call.chunks[3].table_name # call.chunks[1].table_name
  /\ IsPanic(ret)

\* C24: the schema returned by compact_plan and split_plan has output_sort
\* as its sort key and is otherwise the provider's schema; it is the
\* provider's schema itself when that already had the key.
C24_SchemaCarriesOutputSort ==
  (Returned("compact_plan") \/ Returned("split_plan")) =>
    LET provided == ScanNode(ret.plan).provider.schema IN
      /\ ret.schema.sort_key = call.output_sort
      /\ ret.schema = [provided EXCEPT !.sort_key = call.output_sort]
      /\ provided.sort_key = call.output_sort => ret.schema = provided

\* A plan over a schema sorted on time, with another output sort key.
C24_Witness ==
  /\ Returned("split_plan")
  /\ call.schema.sort_key = KeyTime
  /\ call.output_sort = KeyTagDescTime
  /\ ret.schema.sort_key = KeyTagDescTime
  /\ ret.schema.columns = call.schema.columns

-----------------------------------------------------------------------------
(* Properties of the single-chunk scan and of the query handler *)

\* A full scan of one chunk has returned: scan_single_chunk_plan, or a query
\* of all columns without predicate.
FullScanReturned ==
  \/ Returned("scan_single_chunk_plan")
  \/ Returned("query") /\ call.selection.all /\ ~call.predicate.some

\* The chunk and the schema of that scan.
ScannedChunk == ScanNode(ret.plan).provider.chunks[1]

ScannedColumns == Range(ScanNode(ret.plan).provider.schema.columns)

\* The rows of the scanned chunk that none of its delete predicates
\* matches, in the chunk's order, widened to the schema.
UndeletedRows ==
  PadAll(SelectSeq(ChunkRows(ScannedChunk),
                   LAMBDA r : ~Deleted(ChunkDeletePredicates(ScannedChunk), r)),
         ScannedColumns)

\* s is strictly ascending on the primary key.
StrictlyOnPk(s) == \A i \in 1..(Len(s) - 1) : PkLess(s[i], s[i + 1])

\* C23 as stated: the single-chunk scan yields exactly the chunk's rows in
\* the chunk's own order, in one partition, with null for the columns the
\* chunk lacks, also for a chunk that may contain duplicates.
C23_SingleChunkScanIsVerbatim ==
  FullScanReturned =>
    ret.out = <<PadAll(ChunkRows(ScannedChunk), ScannedColumns)>>

\* C23 amended: the single-chunk scan requests no sort and yields one
\* partition, with null for the columns the chunk lacks.  Of a chunk that
\* cannot contain duplicates it yields the rows no delete predicate of the
\* chunk matches, in the chunk's order; of a chunk that may contain
\* duplicates (a QueryableBatch) it yields of those rows one per primary
\* key, ascending on the primary key.
C23_SingleChunkScan ==
  FullScanReturned =>
    /\ ~ScanNode(ret.plan).provider.ensure_pk_sort
    /\ Len(ret.out) = 1
    /\ \A i \in 1..Len(ret.out[1]) : DOMAIN ret.out[1][i] = ScannedColumns
    /\ IF may_contain_pk_duplicates(ScannedChunk)
       THEN /\ Range(ret.out[1]) \subseteq Range(UndeletedRows)
            /\ StrictlyOnPk(ret.out[1])
            /\ {PkKey(r) : r \in Range(ret.out[1])}
                 = {PkKey(r) : r \in Range(UndeletedRows)}
       ELSE ret.out[1] = UndeletedRows

\* A query over a batch without tombstones whose rows are not in the order
\* of the primary key: the output is in another order than the batch.
C23_Witness ==
  /\ Returned("query")
  /\ call.selection.all
  /\ ~call.predicate.some
  /\ batch.value.deletes = <<>>
  /\ Len(ret.out[1]) = Len(BatchRows(batch.value))
  /\ ret.out[1] # BatchRows(batch.value)

\* The rows of the queried batch that no delete predicate matches.
Undeleted ==
  SelectSeq(BatchRows(batch.value),
            LAMBDA r : ~Deleted(delete_predicates(batch.value), r))

\* The caller's predicate holds of a row (an empty predicate of every row).
PredicateHolds(r) == call.predicate.some => EvalExpr(call.predicate.value, r)

\* The columns a query returns.
QueriedColumns ==
  IF call.selection.all THEN Range(schema(batch.value).columns)
  ELSE Range(call.selection.columns)

-----------------------------------------------------------------------------
(* Properties of the rows read_filter returns *)

\* The snapshots that have a selected column.
Contributing ==
  {i \in 1..SnapshotCount :
     call.selection.all \/ SnapshotColumns(i) \cap Range(call.selection.columns) # {}}

\* The number of rows of the snapshots in S.
RowsOf(S) ==
  Cardinality({<<i, j>> \in S \X (1..MaxSnapshotRows) :
                 j <= Len(batch.value.data[i].data.rows)})

\* C28: a snapshot with none of the selected columns contributes no row to
\* read_filter and a snapshot with a selected column contributes all its
\* rows: the rows returned are as many as the rows of the contributing
\* snapshots, and come from them in order.
C28_RowsOfContributingSnapshots ==
  Returned("read_filter") =>
    /\ Len(StreamRows(ret)) = RowsOf(Contributing)
    /\ LET origin == Origins(batch.value.data, call.selection) IN
         \A k \in 1..Len(StreamRows(ret)) :
           origin[k].columns \cap Range(ret.schema.columns) # {}

\* Only tag2 is selected over two snapshots of which one has it: fewer
\* rows are returned than the batch holds.
C28_Witness ==
  /\ Returned("read_filter")
  /\ call.selection = SelectionSome(<<"tag2">>)
  /\ SnapshotCount = 2
  /\ Cardinality(Contributing) = 1
  /\ Len(StreamRows(ret)) >= 1
  /\ Len(StreamRows(ret)) < RowsOf(1..SnapshotCount)

-----------------------------------------------------------------------------
(* The system table of columns (server/src/db/system_tables.rs) *)

MaxPartitions == 2

\* Statistics of a column: the number of values and the least value.
StatValues(count, min) == [count |-> count, min |-> min]

ColumnSummary(name, stats) == [name |-> name, stats |-> stats]

TableSummary(name, columns) == [name |-> name, columns |-> columns]

PartitionSummary(key, tables) == [key |-> key, tables |-> tables]

\* ColumnSummary::count: the count of the column's statistics.
count(column) == column.stats.count

ColumnC1 == ColumnSummary("c1", StatValues(1, 23))

ColumnC2 == ColumnSummary("c2", StatValues(2, 43))

ColumnLists == {<<>>, <<ColumnC1>>, <<ColumnC1, ColumnC2>>}

TableLists ==
  {<<>>}
    \cup {<<TableSummary("t1", c)>> : c \in ColumnLists}
    \cup {<<TableSummary("t1", c), TableSummary("t2", d)>> : c, d \in ColumnLists}

PartitionKeys == {"p1", "p2"}

PartitionLists ==
  UNION {[1..n -> {PartitionSummary(k, tl) : k \in PartitionKeys, tl \in TableLists}]
         : n \in 0..MaxPartitions}

\* The schema of the columns table.
ColumnsSchema ==
  <<Field("partition_key", "Utf8", FALSE), Field("table_name", "Utf8", TRUE),
    Field("column_name", "Utf8", TRUE), Field("count", "UInt64", TRUE)>>

\* One row of the columns table.
ColumnRow(partition, table, column) ==
  [partition_key |-> partition.key, table_name |-> table.name,
   column_name |-> column.name, count |-> count(column)]

\* The rows appended for one table: one for each of its columns.
TableRows(partition, table) ==
  [k \in 1..Len(table.columns) |-> ColumnRow(partition, table, table.columns[k])]

\* The rows appended for one partition: those of its tables, in order.
PartitionRows(partition) ==
  Concat([j \in 1..Len(partition.tables) |-> TableRows(partition, partition.tables[j])])

\* Mutant of from_partition_summaries: a table without columns gets a row
\* with a null column.
from_partition_summaries_row_per_table(partitions) ==
  Ok([schema |-> ColumnsSchema,
      rows |-> Concat([i \in 1..Len(partitions) |->
                 Concat([j \in 1..Len(partitions[i].tables) |->
                   IF partitions[i].tables[j].columns = <<>>
                   THEN <<[partition_key |-> partitions[i].key,
                           table_name |-> partitions[i].tables[j].name,
                           column_name |-> NULL, count |-> 0]>>
                   ELSE TableRows(partitions[i], partitions[i].tables[j])])])])

from_partition_summaries(partitions) ==
  Ok([schema |-> ColumnsSchema,
      rows |-> Concat([i \in 1..Len(partitions) |-> PartitionRows(partitions[i])])])

\* from_partition_summaries over the summaries of a catalog.
FromPartitionSummaries ==
  /\ pc = "idle"
  /\ \E partitions \in PartitionLists :
       /\ call' = [op |-> "from_partition_summaries", partitions |-> partitions]
       /\ ret' = from_partition_summaries(partitions)
  /\ pc' = "done"
  /\ UNCHANGED <<batch, router>>

ColumnsNext ==
  \/ FromPartitionSummaries
  \/ Return

ColumnsSpec == Init /\ [][ColumnsNext]_vars

\* The (partition, table, column) positions of the input, and those before
\* a position in iteration order.
ColumnPositions(partitions) ==
  {<<i, j, k>> \in (1..MaxPartitions) \X (1..2) \X (1..2) :
     /\ i <= Len(partitions)
     /\ j <= Len(partitions[i].tables)
     /\ k <= Len(partitions[i].tables[j].columns)}

PositionsBefore(partitions, pos) ==
  {q \in ColumnPositions(partitions) :
     \/ q[1] < pos[1]
     \/ q[1] = pos[1] /\ q[2] < pos[2]
     \/ q[1] = pos[1] /\ q[2] = pos[2] /\ q[3] < pos[3]}

\* C27: from_partition_summaries yields one row for every (partition,
\* table, column) of its input, in iteration order, with the column's
\* count; partitions without tables and tables without columns yield no
\* row, and no partitions yield a batch without rows.
C27_OneRowPerColumn ==
  Returned("from_partition_summaries") =>
    LET ps == call.partitions IN
      /\ ret.schema = ColumnsSchema
      /\ Len(ret.rows) = Cardinality(ColumnPositions(ps))
      /\ \A pos \in ColumnPositions(ps) :
           ret.rows[Cardinality(PositionsBefore(ps, pos)) + 1]
             = [partition_key |-> ps[pos[1]].key,
                table_name |-> ps[pos[1]].tables[pos[2]].name,
                column_name |-> ps[pos[1]].tables[pos[2]].columns[pos[3]].name,
                count |-> ps[pos[1]].tables[pos[2]].columns[pos[3]].stats.count]
      /\ ps = <<>> => ret.rows = <<>>

\* A partition with two columns in its second table and none in its first,
\* before a partition without tables: two rows.
C27_Witness ==
  /\ Returned("from_partition_summaries")
  /\ Len(call.partitions) = 2
  /\ Len(call.partitions[1].tables) = 2
  /\ call.partitions[1].tables[1].columns = <<>>
  /\ Len(call.partitions[1].tables[2].columns) = 2
  /\ call.partitions[2].tables = <<>>
  /\ Len(ret.rows) = 2
  /\ ret.rows[2].column_name = "c2"
  /\ ret.rows[2].count = 2

-----------------------------------------------------------------------------
(* Error payloads of gRPC status responses (generated_types/src/google.rs) *)

\* prost encoding of a proto3 message: the fields that differ from their
\* defaults; decoding fills the fields that are absent with the defaults.
ProstEncode(defaults, message) ==
  [f \in {g \in DOMAIN defaults : message[g] # defaults[g]} |-> message[f]]

ProstDecode(defaults, bytes) ==
  [f \in DOMAIN defaults |-> IF f \in DOMAIN bytes THEN bytes[f] ELSE defaults[f]]

\* The message of a status: a text as the sequence of its non-empty parts,
\* so that the empty text is the empty sequence.
Text(parts) == SelectSeq(parts, LAMBDA s : s # "")

\* The messages of google.rpc with their default values.
RpcStatus == [code |-> 0, message |-> <<>>, details |-> <<>>]

RpcAny == [type_url |-> "", value |-> <<>>]

RpcFieldViolation == [field |-> "", description |-> ""]

RpcBadRequest == [field_violations |-> <<>>]

RpcResourceInfo ==
  [resource_type |-> "", resource_name |-> "", owner |-> "", description |-> ""]

RpcViolation == [type |-> "", subject |-> "", description |-> ""]

RpcPreconditionFailure == [violations |-> <<>>]

\* tonic::Code as i32.
CodeAsI32(code) ==
  CASE code = "InvalidArgument" -> 3
    [] code = "NotFound" -> 5
    [] code = "AlreadyExists" -> 6
    [] code = "FailedPrecondition" -> 9

\* tonic::Status::with_details.
Status_with_details(code, message, details) ==
  [code |-> code, message |-> message, details |-> details]

encode_status(code, message, details) ==
  Status_with_details(code, message,
    ProstEncode(RpcStatus,
      [code |-> CodeAsI32(code), message |-> message,
       details |-> <<ProstEncode(RpcAny, details)>>]))

\* The Any payloads of a status.
get_details(status) ==
  LET decoded == ProstDecode(RpcStatus, status.details)
  IN [i \in 1..Len(decoded.details) |-> ProstDecode(RpcAny, decoded.details[i])]

\* --- FieldViolation

FieldViolation(field, description) == [field |-> field, description |-> description]

FieldViolation_required(field) == FieldViolation(field, "Field is required")

\* Display of a FieldViolation, as the parts of the formatted text.
FieldViolation_to_string(f) ==
  Text(<<"Violation for field \"", f.field, "\": ", f.description>>)

encode_bad_request(violation) ==
  [type_url |-> "type.googleapis.com/google.rpc.BadRequest",
   value |-> ProstEncode(RpcBadRequest,
               [field_violations |->
                  [i \in 1..Len(violation) |->
                     ProstEncode(RpcFieldViolation,
                       [field |-> violation[i].field,
                        description |-> violation[i].description])]])]

Status_from_FieldViolation(f) ==
  encode_status("InvalidArgument", FieldViolation_to_string(f), encode_bad_request(<<f>>))

FieldViolation_from(v) == FieldViolation(v.field, v.description)

\* The payloads of the given type among the details of a status.
DetailsOfType(status, type_url) ==
  SelectSeq(get_details(status), LAMBDA details : details.type_url = type_url)

decode_field_violation(status) ==
  LET bad == DetailsOfType(status, "type.googleapis.com/google.rpc.BadRequest")
  IN Concat([i \in 1..Len(bad) |->
       LET violations == ProstDecode(RpcBadRequest, bad[i].value).field_violations
       IN [k \in 1..Len(violations) |->
             FieldViolation_from(ProstDecode(RpcFieldViolation, violations[k]))]])

\* --- ResourceType

KnownResourceTypes ==
  {"Database", "Table", "Partition", "Chunk", "DatabaseUuid", "Job", "Router", "ServerId"}

Unknown(name) == [kind |-> "Unknown", name |-> name]

as_str(self) ==
  CASE self.kind = "Database" -> "database"
    [] self.kind = "DatabaseUuid" -> "database_uuid"
    [] self.kind = "Table" -> "table"
    [] self.kind = "Partition" -> "partition"
    [] self.kind = "Chunk" -> "chunk"
    [] self.kind = "Job" -> "job"
    [] self.kind = "Router" -> "router"
    [] self.kind = "ServerId" -> "server_id"
    [] self.kind = "Unknown" -> self.name

ResourceType_from(s) ==
  CASE s = "database" -> [kind |-> "Database"]
    [] s = "database_uuid" -> [kind |-> "DatabaseUuid"]
    [] s = "table" -> [kind |-> "Table"]
    [] s = "partition" -> [kind |-> "Partition"]
    [] s = "chunk" -> [kind |-> "Chunk"]
    [] s = "job" -> [kind |-> "Job"]
    [] s = "router" -> [kind |-> "Router"]
    [] s = "server_id" -> [kind |-> "ServerId"]
    [] OTHER -> Unknown(s)

\* --- AlreadyExists and NotFound

ResourceError(resource_type, resource_name, owner, description) ==
  [resource_type |-> resource_type, resource_name |-> resource_name,
   owner |-> owner, description |-> description]

\* Mutant of encode_resource_info: the owner is not encoded.
encode_resource_info_without_owner(resource_type, resource_name, owner, description) ==
  [type_url |-> "type.googleapis.com/google.rpc.ResourceInfo",
   value |-> ProstEncode(RpcResourceInfo,
               [resource_type |-> resource_type, resource_name |-> resource_name,
                owner |-> "", description |-> description])]

encode_resource_info(resource_type, resource_name, owner, description) ==
  [type_url |-> "type.googleapis.com/google.rpc.ResourceInfo",
   value |-> ProstEncode(RpcResourceInfo,
               [resource_type |-> resource_type, resource_name |-> resource_name,
                owner |-> owner, description |-> description])]

decode_resource_info(status) ==
  LET infos == DetailsOfType(status, "type.googleapis.com/google.rpc.ResourceInfo")
  IN [i \in 1..Len(infos) |-> ProstDecode(RpcResourceInfo, infos[i].value)]

ResourceError_from(r) ==
  ResourceError(ResourceType_from(r.resource_type), r.resource_name, r.owner, r.description)

Status_from_AlreadyExists(exists) ==
  encode_status("AlreadyExists", Text(<<exists.description>>),
    encode_resource_info(as_str(exists.resource_type), exists.resource_name,
                         exists.owner, exists.description))

decode_already_exists(status) ==
  LET infos == decode_resource_info(status)
  IN [i \in 1..Len(infos) |-> ResourceError_from(infos[i])]

Status_from_NotFound(not_found) ==
  encode_status("NotFound", Text(<<not_found.description>>),
    encode_resource_info(as_str(not_found.resource_type), not_found.resource_name,
                         not_found.owner, not_found.description))

decode_not_found(status) ==
  LET infos == decode_resource_info(status)
  IN [i \in 1..Len(infos) |-> ResourceError_from(infos[i])]

\* --- PreconditionViolation

UnitViolations ==
  {"ServerIdNotSet", "DatabaseImmutable", "RouterConfigImmutable", "DatabaseConfigImmutable"}

StateViolations ==
  {"ServerInvalidState", "DatabaseInvalidState", "PartitionInvalidState", "ChunkInvalidState"}

UnknownViolation(category, subject, description) ==
  [kind |-> "Unknown", category |-> category, subject |-> subject,
   description |-> description]

PreconditionViolation_description(self) ==
  CASE self.kind = "ServerIdNotSet" -> "server id must be set"
    [] self.kind = "DatabaseImmutable" -> "database must be mutable"
    [] self.kind = "RouterConfigImmutable" -> "router configuration is not mutable"
    [] self.kind = "DatabaseConfigImmutable" -> "database configuration is not mutable"
    [] OTHER -> self.description

Violation(type, subject, description) ==
  [type |-> type, subject |-> subject, description |-> description]

Violation_from(v) ==
  CASE v.kind = "ServerIdNotSet" ->
         Violation("server_id", "influxdata.com/iox", PreconditionViolation_description(v))
    [] v.kind = "ServerInvalidState" ->
         Violation("state", "influxdata.com/iox", PreconditionViolation_description(v))
    [] v.kind = "DatabaseImmutable" ->
         Violation("mutable", "influxdata.com/iox/database", PreconditionViolation_description(v))
    [] v.kind = "DatabaseInvalidState" ->
         Violation("state", "influxdata.com/iox/database", PreconditionViolation_description(v))
    [] v.kind = "PartitionInvalidState" ->
         Violation("state", "influxdata.com/iox/partition", PreconditionViolation_description(v))
    [] v.kind = "ChunkInvalidState" ->
         Violation("state", "influxdata.com/iox/chunk", PreconditionViolation_description(v))
    [] v.kind = "RouterConfigImmutable" ->
         Violation("config", "influxdata.com/iox/router", PreconditionViolation_description(v))
    [] v.kind = "DatabaseConfigImmutable" ->
         Violation("config", "influxdata.com/iox/database", PreconditionViolation_description(v))
    [] v.kind = "Unknown" -> Violation(v.category, v.subject, v.description)

PreconditionViolation_from(v) ==
  LET pair == <<v.type, v.subject>> IN
  CASE pair = <<"server_id", "influxdata.com/iox">> -> [kind |-> "ServerIdNotSet"]
    [] pair = <<"state", "influxdata.com/iox">> ->
         [kind |-> "ServerInvalidState", description |-> v.description]
    [] pair = <<"mutable", "influxdata.com/iox/database">> -> [kind |-> "DatabaseImmutable"]
    [] pair = <<"state", "influxdata.com/iox/database">> ->
         [kind |-> "DatabaseInvalidState", description |-> v.description]
    [] pair = <<"state", "influxdata.com/iox/partition">> ->
         [kind |-> "PartitionInvalidState", description |-> v.description]
    [] pair = <<"state", "influxdata.com/iox/chunk">> ->
         [kind |-> "ChunkInvalidState", description |-> v.description]
    [] pair = <<"config", "influxdata.com/iox/router">> -> [kind |-> "RouterConfigImmutable"]
    [] pair = <<"config", "influxdata.com/iox/database">> -> [kind |-> "DatabaseConfigImmutable"]
    [] OTHER -> UnknownViolation(v.type, v.subject, v.description)

decode_precondition_violation(status) ==
  LET failures == DetailsOfType(status, "type.googleapis.com/google.rpc.PreconditionFailure")
  IN Concat([i \in 1..Len(failures) |->
       LET violations == ProstDecode(RpcPreconditionFailure, failures[i].value).violations
       IN [k \in 1..Len(violations) |->
             PreconditionViolation_from(ProstDecode(RpcViolation, violations[k]))]])

encode_precondition_failure(violations) ==
  [type_url |-> "type.googleapis.com/google.rpc.PreconditionFailure",
   value |-> ProstEncode(RpcPreconditionFailure,
               [violations |->
                  [i \in 1..Len(violations) |->
                     ProstEncode(RpcViolation, Violation_from(violations[i]))]])]

Status_from_PreconditionViolation(violation) ==
  encode_status("FailedPrecondition",
                Text(<<PreconditionViolation_description(violation)>>),
                encode_precondition_failure(<<violation>>))

\* --- The errors a server reports

FieldViolations ==
  {FieldViolation(field, description) :
     field \in {"", "foobar", "op"}, description \in {"", "Field is required"}}

ResourceNames == {"", "chunky", "chunk", "database"}

ResourceTypes ==
  {[kind |-> k] : k \in KnownResourceTypes} \cup {Unknown(s) : s \in ResourceNames}

ResourceErrors ==
  {ResourceError(resource_type, resource_name, owner, description) :
     resource_type \in ResourceTypes, resource_name \in {"", "chunky"},
     owner \in {"", "me"}, description \in {"", "Resource chunk/chunky not found"}}

Descriptions == {"", "mumbo"}

PreconditionViolations ==
  {[kind |-> k] : k \in UnitViolations}
    \cup {[kind |-> k, description |-> d] : k \in StateViolations, d \in Descriptions}
    \cup {UnknownViolation(category, subject, d) :
            category \in {"", "state", "config", "quota"},
            subject \in {"", "influxdata.com/iox", "influxdata.com/iox/database",
                         "influxdata.com/iox/router", "elsewhere"},
            d \in Descriptions}

\* A FieldViolation is sent as a status and decoded by the client.
SendFieldViolation ==
  /\ pc = "idle"
  /\ \E error \in FieldViolations :
       /\ call' = [op |-> "field_violation", error |-> error]
       /\ ret' = Ok([sent |-> Status_from_FieldViolation(error),
                     collected |-> decode_field_violation(Status_from_FieldViolation(error))])
  /\ pc' = "done"
  /\ UNCHANGED <<batch, router>>

\* A NotFound is sent as a status and decoded by the client.
SendNotFound ==
  /\ pc = "idle"
  /\ \E error \in ResourceErrors :
       /\ call' = [op |-> "not_found", error |-> error]
       /\ ret' = Ok([sent |-> Status_from_NotFound(error),
                     collected |-> decode_not_found(Status_from_NotFound(error))])
  /\ pc' = "done"
  /\ UNCHANGED <<batch, router>>

\* An AlreadyExists is sent as a status and decoded by the client.
SendAlreadyExists ==
  /\ pc = "idle"
  /\ \E error \in ResourceErrors :
       /\ call' = [op |-> "already_exists", error |-> error]
       /\ ret' = Ok([sent |-> Status_from_AlreadyExists(error),
                     collected |-> decode_already_exists(Status_from_AlreadyExists(error))])
  /\ pc' = "done"
  /\ UNCHANGED <<batch, router>>

\* A PreconditionViolation is sent as a status and decoded by the client.
SendPreconditionViolation ==
  /\ pc = "idle"
  /\ \E error \in PreconditionViolations :
       /\ call' = [op |-> "precondition_violation", error |-> error]
       /\ ret' = Ok([sent |-> Status_from_PreconditionViolation(error),
                     collected |->
                       decode_precondition_violation(Status_from_PreconditionViolation(error))])
  /\ pc' = "done"
  /\ UNCHANGED <<batch, router>>

ErrorsNext ==
  \/ SendFieldViolation
  \/ SendNotFound
  \/ SendAlreadyExists
  \/ SendPreconditionViolation
  \/ Return

ErrorsSpec == Init /\ [][ErrorsNext]_vars

\* An error was sent and decoded.
Sent ==
  /\ pc = "done"
  /\ call.op \in {"field_violation", "not_found", "already_exists", "precondition_violation"}

\* The names and the (type, subject) pairs that decode to a known variant.
KnownNames ==
  {"database", "database_uuid", "table", "partition", "chunk", "job", "router", "server_id"}

KnownPairs ==
  {<<"server_id", "influxdata.com/iox">>, <<"state", "influxdata.com/iox">>,
   <<"mutable", "influxdata.com/iox/database">>, <<"state", "influxdata.com/iox/database">>,
   <<"state", "influxdata.com/iox/partition">>, <<"state", "influxdata.com/iox/chunk">>,
   <<"config", "influxdata.com/iox/router">>, <<"config", "influxdata.com/iox/database">>}

\* An Unknown value that carries what a known variant is encoded as.
Shadowed(error) ==
  \/ /\ call.op \in {"not_found", "already_exists"}
     /\ error.resource_type.kind = "Unknown"
     /\ error.resource_type.name \in KnownNames
  \/ /\ call.op = "precondition_violation"
     /\ error.kind = "Unknown"
     /\ <<error.category, error.subject>> \in KnownPairs

\* C26 as stated: every FieldViolation, NotFound, AlreadyExists and
\* PreconditionViolation sent as a status decodes to itself alone.
C26_ErrorRoundTrip ==
  Sent => ret.collected = <<call.error>>

\* C26 amended: an error sent as a status decodes to one value; it is the
\* error itself unless the error is an Unknown resource type named like a
\* known one, or an Unknown violation with the category and subject of a
\* known one, which decode to the known variant.
C26_ErrorRoundTripUnlessShadowed ==
  Sent =>
    /\ Len(ret.collected) = 1
    /\ ~Shadowed(call.error) => ret.collected = <<call.error>>
    /\ Shadowed(call.error) =>
         /\ call.op = "precondition_violation" =>
              /\ ret.collected[1].kind # "Unknown"
              /\ Violation_from(ret.collected[1]).type = call.error.category
              /\ Violation_from(ret.collected[1]).subject = call.error.subject
         /\ call.op # "precondition_violation" =>
              /\ ret.collected[1].resource_type.kind \in KnownResourceTypes
              /\ as_str(ret.collected[1].resource_type) = call.error.resource_type.name
              /\ [ret.collected[1] EXCEPT !.resource_type = call.error.resource_type]
                   = call.error

\* A NotFound of an Unknown resource type with an owner came back as sent.
C26_Witness ==
  /\ Sent
  /\ call.op = "not_found"
  /\ call.error.resource_type = Unknown("chunky")
  /\ call.error.owner = "me"
  /\ ret.collected = <<call.error>>
  /\ ret.sent.code = "NotFound"

-----------------------------------------------------------------------------
(* Conversions of the delete API (generated_types/src/parse_delete.rs) *)

MaxExprs == 2

\* Result values of the conversions.
ConvOk(value) == [ok |-> TRUE, value |-> value]

ConvErr(error) == [ok |-> FALSE, error |-> error]

\* FieldViolation::scope: the error as the child of another field.
FieldViolation_scope(self, field) ==
  IF self.field = "" THEN FieldViolation(field, self.description)
  ELSE FieldViolation(<<field, ".", self.field>>, self.description)

\* ProvidedDeleteOp to management::DeleteOp.
DeleteOp_from(op) ==
  CASE op = "Eq" -> "Eq"
    [] op = "NotEq" -> "NotEq"

\* management::DeleteOp as the i32 of the message field.
DeleteOp_into_i32(op) ==
  CASE op = "Unspecified" -> 0
    [] op = "Eq" -> 1
    [] op = "NotEq" -> 2

\* management::DeleteOp::from_i32: None for a number that is no DeleteOp.
DeleteOp_from_i32(value) ==
  CASE value = 0 -> Some("Unspecified")
    [] value = 1 -> Some("Eq")
    [] value = 2 -> Some("NotEq")
    [] OTHER -> None

\* management::DeleteOp to ProvidedDeleteOp.
ProvidedDeleteOp_try_from(proto) ==
  CASE proto = "Eq" -> ConvOk("Eq")
    [] proto = "NotEq" -> ConvOk("NotEq")
    [] proto = "Unspecified" -> ConvErr(FieldViolation_required(""))

\* FromField::field: the conversion, its error scoped with the field.
DeleteOp_field(proto, field) ==
  LET converted == ProvidedDeleteOp_try_from(proto)
  IN IF converted.ok THEN converted
     ELSE ConvErr(FieldViolation_scope(converted.error, field))

\* FromOptionalField::required for an optional DeleteOp.
required(option, field) ==
  IF ~option.some THEN ConvErr(FieldViolation_required(field))
  ELSE DeleteOp_field(option.value, field)

ProvidedDeleteBinaryExpr(column, op, value) ==
  [column |-> column, op |-> op, value |-> value]

\* ProvidedDeleteBinaryExpr to management::DeleteBinaryExpr.
DeleteBinaryExpr_from(bin_expr) ==
  [column |-> bin_expr.column,
   op |-> DeleteOp_into_i32(DeleteOp_from(bin_expr.op)),
   value |-> bin_expr.value]

\* management::DeleteBinaryExpr to ProvidedDeleteBinaryExpr.
ProvidedDeleteBinaryExpr_try_from(proto) ==
  LET op == required(DeleteOp_from_i32(proto.op), "op")
  IN IF ~op.ok THEN op
     ELSE ConvOk(ProvidedDeleteBinaryExpr(proto.column, op.value, proto.value))

\* ProvidedParseDelete to management::ParseDelete.
ParseDelete_from(parse_delete) ==
  [start_time |-> parse_delete.start_time,
   stop_time |-> parse_delete.stop_time,
   exprs |-> [i \in 1..Len(parse_delete.predicate) |->
                DeleteBinaryExpr_from(parse_delete.predicate[i])]]

\* Iterator::collect into a Result: the values, or the first error.
RECURSIVE collect(_)
collect(results) ==
  IF results = <<>> THEN ConvOk(<<>>)
  ELSE IF ~Head(results).ok THEN Head(results)
  ELSE LET rest == collect(Tail(results))
       IN IF rest.ok THEN ConvOk(<<Head(results).value>> \o rest.value) ELSE rest

\* Mutant of ProvidedParseDelete_try_from: expressions that do not convert
\* are left out.
ProvidedParseDelete_try_from_lenient(proto) ==
  LET converted == [i \in 1..Len(proto.exprs) |->
                      ProvidedDeleteBinaryExpr_try_from(proto.exprs[i])]
      good == SelectSeq(converted, LAMBDA r : r.ok)
  IN ConvOk([start_time |-> proto.start_time, stop_time |-> proto.stop_time,
             predicate |-> [i \in 1..Len(good) |-> good[i].value]])

\* management::ParseDelete to ProvidedParseDelete.
ProvidedParseDelete_try_from(proto) ==
  LET pred_result == collect([i \in 1..Len(proto.exprs) |->
                                ProvidedDeleteBinaryExpr_try_from(proto.exprs[i])])
  IN IF ~pred_result.ok THEN pred_result
     ELSE ConvOk([start_time |-> proto.start_time, stop_time |-> proto.stop_time,
                  predicate |-> pred_result.value])

\* The delete requests of a client.
ProvidedExprs ==
  {ProvidedDeleteBinaryExpr(column, op, value) :
     column \in {"city", "temp"}, op \in {"Eq", "NotEq"}, value \in {"10", "Boston"}}

ProvidedParseDeletes ==
  {[start_time |-> start, stop_time |-> "200", predicate |-> predicate] :
     start \in {"", "100"},
     predicate \in UNION {[1..n -> ProvidedExprs] : n \in 0..MaxExprs}}

\* The messages a server may receive: any number as the op.
ManagementExprs ==
  {[column |-> "temp", op |-> op, value |-> value] : op \in 0..3, value \in {"", "10"}}

ManagementParseDeletes ==
  {[start_time |-> "100", stop_time |-> "200", exprs |-> exprs] :
     exprs \in UNION {[1..n -> ManagementExprs] : n \in 0..MaxExprs}}

\* A ProvidedParseDelete is converted to the message and back.
ConvertParseDelete ==
  /\ pc = "idle"
  /\ \E parse_delete \in ProvidedParseDeletes :
       /\ call' = [op |-> "parse_delete_into", parse_delete |-> parse_delete]
       /\ ret' = Ok([proto |-> ParseDelete_from(parse_delete),
                     back |-> ProvidedParseDelete_try_from(ParseDelete_from(parse_delete))])
  /\ pc' = "done"
  /\ UNCHANGED <<batch, router>>

\* A management::ParseDelete is converted with try_from.
TryFromParseDelete ==
  /\ pc = "idle"
  /\ \E proto \in ManagementParseDeletes :
       LET result == ProvidedParseDelete_try_from(proto) IN
         /\ call' = [op |-> "parse_delete_try_from", proto |-> proto]
         /\ ret' = IF result.ok THEN Ok([value |-> result.value]) ELSE Err(result.error)
  /\ pc' = "done"
  /\ UNCHANGED <<batch, router>>

DeleteApiNext ==
  \/ ConvertParseDelete
  \/ TryFromParseDelete
  \/ Return

DeleteApiSpec == Init /\ [][DeleteApiNext]_vars

\* C29: a ProvidedParseDelete converted to management::ParseDelete and back
\* with try_from comes back unchanged; try_from of a message in which some
\* expression has an Unspecified or unknown op fails with a FieldViolation
\* and yields no ProvidedParseDelete, and succeeds otherwise.
C29_ParseDeleteRoundTrip ==
  /\ Returned("parse_delete_into") =>
       /\ ret.back = ConvOk(call.parse_delete)
       /\ ret.proto.start_time = call.parse_delete.start_time
       /\ ret.proto.stop_time = call.parse_delete.stop_time
       /\ Len(ret.proto.exprs) = Len(call.parse_delete.predicate)
  /\ (pc = "done" /\ call.op = "parse_delete_try_from") =>
       IF \E i \in 1..Len(call.proto.exprs) : call.proto.exprs[i].op \notin {1, 2}
       THEN ret = Err(FieldViolation("op", "Field is required"))
       ELSE /\ ret.status = "ok"
            /\ ParseDelete_from(ret.value) = call.proto

\* try_from of a message whose second expression has an unknown op, after
\* an expression that converts, failed.
C29_FailureReached ==
  /\ pc = "done"
  /\ call.op = "parse_delete_try_from"
  /\ Len(call.proto.exprs) = 2
  /\ call.proto.exprs[1].op = 2
  /\ call.proto.exprs[2].op = 3
  /\ ret.status = "err"
  /\ ret.error.field = "op"

\* Two expressions with different operators came back in their order.
C29_Witness ==
  /\ Returned("parse_delete_into")
  /\ Len(call.parse_delete.predicate) = 2
  /\ call.parse_delete.predicate[1].op = "NotEq"
  /\ call.parse_delete.predicate[2].op = "Eq"
  /\ ret.back.ok
  /\ ret.back.value = call.parse_delete

-----------------------------------------------------------------------------
(* The life of a router server: tasks that join it, and its shutdown *)

\* A task calls join(): its future is pending.  The task notes whether
\* shutdown() had been called before.
Join(i) ==
  /\ router.joins[i] = "none"
  /\ router' = [router EXCEPT
       !.joins[i] = IF router.shutdowns = 0 THEN "pending" ELSE "pending_late"]
  /\ UNCHANGED <<pc, call, ret, batch>>

\* The future of join() is polled and is ready: join() returns.
JoinReturns(i) ==
  /\ router.joins[i] \in {"pending", "pending_late"}
  /\ join_ready(router.server)
  /\ router' = [router EXCEPT
       !.joins[i] = IF @ = "pending" THEN "complete" ELSE "complete_late"]
  /\ UNCHANGED <<pc, call, ret, batch>>

\* shutdown() is called.
Shutdown ==
  /\ router.shutdowns < MaxShutdowns
  /\ router' = [router EXCEPT !.server = shutdown(@), !.shutdowns = @ + 1]
  /\ UNCHANGED <<pc, call, ret, batch>>

RouterNext ==
  \/ \E i \in 1..MaxJoins : Join(i)
  \/ \E i \in 1..MaxJoins : JoinReturns(i)
  \/ Shutdown

\* The executor polls a future that was woken: a ready join() returns.
RouterSpec ==
  Init /\ [][RouterNext]_vars /\ \A i \in 1..MaxJoins : WF_vars(JoinReturns(i))

\* join() of task i has returned.
Joined(i) == router.joins[i] \in {"complete", "complete_late"}

\* C30: join() never returns before shutdown() was called; once shutdown()
\* was called every join() that is pending, or is called later, returns in
\* the end; a further shutdown() changes neither the server nor the joins.
C30_JoinWaitsForShutdown ==
  /\ [](\A i \in 1..MaxJoins : Joined(i) => router.shutdowns >= 1)
  /\ \A i \in 1..MaxJoins :
       (router.shutdowns >= 1 /\ router.joins[i] \in {"pending", "pending_late"})
         ~> Joined(i)
  /\ [][(router.shutdowns >= 1 /\ router'.shutdowns # router.shutdowns) =>
          (router'.server = router.server /\ router'.joins = router.joins)]_vars

\* After two calls of shutdown() a join() that waited and a join() called
\* after shutdown() have both returned.
C30_Witness ==
  /\ router.shutdowns >= 2
  /\ \E i, j \in 1..MaxJoins :
       router.joins[i] = "complete" /\ router.joins[j] = "complete_late"

====
